---- MODULE Spec2Model ----
(***************************************************************************)
(* Model of the remote-execution and log-intelligence core of the          *)
(* minecraft-disc-bot (src/app.py, src/utils.py).                          *)
(*                                                                         *)
(* Text is modelled character by character: a Python str is a sequence of  *)
(* one-character strings, so that split, slicing and the substring test    *)
(* are computed the way the code computes them.                            *)
(*                                                                         *)
(* A coroutine runs without interruption until it really suspends, and the *)
(* only suspension points of the modelled code are the remote (ssh)        *)
(* subprocess calls.  One action of the model is therefore one run of a    *)
(* task from a resumption to its next remote call (or to its end).         *)
(***************************************************************************)
EXTENDS Integers, Sequences, FiniteSets, TLC

VARIABLES
    listing,    \* remote: log file paths as `ls -t` prints them, newest first
    content,    \* remote: path -> text of the (decompressed) file
    cache,      \* app.py:30, the module-level dict
    task,       \* the running coroutines that scan the logs, by task id
    batch,      \* the last_joined command invocations, by batch id
    calls,      \* results of the completed direct search_string_in_logs calls
    jsonParts,  \* the object texts an input of extract_json_objects is made of
    jsonTail,   \* what follows them in that input
    jsonOut,    \* what extract_json_objects returned for it
    render,     \* an errors list and what build_errors_string made of it
    usersOut,   \* remote: what `cat minecraft_server/usernamecache.json` prints
    statsFiles, \* remote: uuid -> text of minecraft_server/world/stats/<uuid>.json
    playersFile,\* local: the parsed content of data/players.json
    cmd,        \* the running daily update, list_players or playtime command
    privilegedFile, \* local: the text of data/privileged_users.txt
    ctxs,       \* the invocations of the permission-gated commands
    scriptsRun  \* remote: the scripts run_script has started, in order

\* the state of the permission-gated commands
permVars == <<privilegedFile, ctxs, scriptsRun>>

\* the state outside the log scanning and extract_json_objects
restVars == <<render, usersOut, statsFiles, playersFile, cmd, permVars>>

\* the state the log scanning leaves alone
nonLogVars == <<jsonParts, jsonTail, jsonOut, restVars>>

vars == <<listing, content, cache, task, batch, calls, nonLogVars>>

----------------------------------------------------------------------------
(* Bounds of the model *)

MaxLines == 3       \* log lines on the remote host, all files together
MaxFiles == 2       \* log files on the remote host
MaxK == 2           \* largest finite match limit k tried
MaxBudget == 3      \* largest finite max_search_lines tried
MaxCalls == 2       \* direct calls of search_string_in_logs in a row

----------------------------------------------------------------------------
(* Python str and list operations, on sequences of characters *)

\* the sentinel -1 that k and max_search_lines use for "no limit"
Unbounded == -1

RECURSIVE Concat(_)
\* "".join(parts)
Concat(parts) ==
    IF parts = <<>> THEN <<>> ELSE Head(parts) \o Concat(Tail(parts))

\* the positions of s that hold the character c
Positions(s, c) == {i \in 1..Len(s) : s[i] = c}

RECURSIVE SplitAt(_, _, _)
\* the pieces of s from position i on, cut at the positions ps; p is the
\* first of them and rest the others
SplitAt(s, i, ps) ==
    IF ps = {} THEN <<SubSeq(s, i, Len(s))>>
    ELSE CHOOSE pieces \in
            {<<SubSeq(s, i, p - 1)>> \o SplitAt(s, p + 1, rest) :
                p \in {q \in ps : \A r \in ps : q <= r}, rest \in {{q \in ps : \E r \in ps : r < q}}} : TRUE

\* s.split(c) for a one-character separator c: always at least one piece
Split(s, c) == CHOOSE pieces \in {SplitAt(text, 1, ps) : text \in {s}, ps \in {Positions(s, c)}} : TRUE

\* needle in line
Contains(needle, line) ==
    \/ needle = <<>>
    \/ \E i \in 1..(Len(line) - Len(needle) + 1) :
          line[i] = needle[1] /\ SubSeq(line, i, i + Len(needle) - 1) = needle

\* a slice that keeps everything after the first character: s[1:]
SliceFromOne(s) == SubSeq(s, 2, Len(s))

\* s[1:-4]
SliceOneToMinusFour(s) ==
    IF Len(s) - 4 >= 2 THEN SubSeq(s, 2, Len(s) - 4) ELSE <<>>

\* line.split(']')[0][1:-4]  (app.py:377 and app.py:390)
ExtractTime(line) == SliceOneToMinusFour(Split(line, "]")[1])

\* a scan that forgets to reverse: seq
ReverseMissing(s) == s

\* seq[::-1]
Reverse(s) == [i \in 1..Len(s) |-> s[Len(s) + 1 - i]]

----------------------------------------------------------------------------
(* The text of the remote log files *)

Alice == <<"A","l","i","c","e">>
Bob == <<"B","o","b">>
Names == {Alice, Bob}

JoinedSuffix == <<" ","j","o","i","n","e","d"," ","t","h","e"," ","g","a","m","e">>
LeftSuffix == <<" ","l","e","f","t"," ","t","h","e"," ","g","a","m","e">>
TheGame == <<"t","h","e"," ","g","a","m","e">>

\* f"{username} joined the game", f"{username} left the game"
JoinedPattern(username) == username \o JoinedSuffix
LeftPattern(username) == username \o LeftSuffix

\* what a log line says after its bracketed timestamp
Bodies == {JoinedPattern(Alice), LeftPattern(Alice), JoinedPattern(Bob)}

\* the timestamps of the log lines, oldest first: the n-th line the server
\* ever wrote carries the n-th stamp
Stamps == <<
    <<"0","1","J","a","n","2","0","2","4"," ","1","0",":","0","0",":","0","0">>,
    <<"0","1","J","a","n","2","0","2","4"," ","1","1",":","3","0",":","0","0">>,
    <<"0","2","J","a","n","2","0","2","4"," ","0","9",":","1","5",":","4","2">>,
    <<"0","2","J","a","n","2","0","2","4"," ","2","1",":","0","7",":","0","3">>,
    <<"0","3","J","a","n","2","0","2","4"," ","0","8",":","0","1",":","5","9">>,
    <<"0","3","J","a","n","2","0","2","4"," ","1","7",":","4","0",":","2","0">> >>

Stamp(n) == Stamps[((n - 1) % Len(Stamps)) + 1]

\* the fraction of a second the server's log format appends to the time
Millis == <<".","1","2","3">>

\* one log line: "[<stamp>] <body>", the stamp with or without milliseconds
LogLine(n, body, millis) ==
    <<"[">> \o Stamp(n) \o (IF millis THEN Millis ELSE <<>>) \o <<"]", " ">> \o body

\* the paths `ls -t` can print, newest first
Paths == <<"logs/latest.log", "logs/2024-01-03-1.log.gz",
           "logs/2024-01-02-1.log.gz", "logs/2024-01-01-1.log.gz">>

RECURSIVE SumSeq(_)
SumSeq(s) == IF s = <<>> THEN 0 ELSE Head(s) + SumSeq(Tail(s))

BoundedSeq(S, n) == UNION {[1..m -> S] : m \in 0..n}

\* the text of a file holding lines first+1 .. first+len of the chronological
\* log: every line ends with a newline
FileText(log, first, len, millis) ==
    Concat([j \in 1..len |-> LogLine(first + j, log[first + j], millis) \o <<"\n">>])

\* The remote files for a chronological log cut into files of the given sizes
\* (sizes[1] is the newest file, so it holds the last lines of the log)
RemoteContent(log, sizes, millis) ==
    [p \in {Paths[f] : f \in 1..Len(sizes)} |->
        LET f == CHOOSE g \in 1..Len(sizes) : Paths[g] = p
            after == SumSeq(SubSeq(sizes, 1, f))
        IN FileText(log, Len(log) - after, sizes[f], millis)]

\* every way to cut n lines into 1..MaxFiles files (a file may be empty)
Cuts(n) ==
    {s \in UNION {[1..m -> 0..n] : m \in 1..MaxFiles} : SumSeq(s) = n}

----------------------------------------------------------------------------
(* Error nodes: the tuples (function, message, error) appended to the       *)
(* errors lists.  error is either a str or a list of nodes.                 *)

Leaf(origin, message, text) ==
    [origin |-> origin, message |-> message, isText |-> TRUE,
     text |-> text, children |-> <<>>]

Wrap(origin, message, children) ==
    [origin |-> origin, message |-> message, isText |-> FALSE,
     text |-> <<>>, children |-> children]

\* what the remote command wrote to stderr when it failed
Stderr == "stderr"

\* "\t" * indent
RECURSIVE Tabs(_)
Tabs(indent) == IF indent <= 0 THEN <<>> ELSE <<"\t">> \o Tabs(indent - 1)

RECURSIVE BuildErrorsString(_, _)
\* build_errors_string(errors, indent) (app.py:107-120), for nodes whose
\* origin, message and text are sequences of characters
BuildErrorsString(errors, indent) ==
    IF errors = <<>> THEN <<>>
    ELSE LET node == Head(errors)
             indentation == Tabs(indent)
             header == indentation \o node.origin \o <<":", " ", "\"">>
                         \o node.message \o <<"\"", "\n">>
             detail == IF node.isText
                       THEN IF node.text # <<>>
                            THEN indentation \o node.text \o <<"\n">>
                            ELSE <<>>
                       ELSE BuildErrorsString(node.children, indent + 1)
         IN header \o detail \o BuildErrorsString(Tail(errors), indent)

----------------------------------------------------------------------------
(* The cache (app.py:30) *)

EmptyCache == [key \in {} |-> <<>>]

\* "log_files_" + sort_by; every caller passes sort_by="date"
ListKey == "log_files_date"

CachePut(c, key, value) == [x \in DOMAIN c \cup {key} |-> IF x = key THEN value ELSE c[x]]

\* stdout.strip().split('\n') with the blank entries dropped (app.py:322-323);
\* stdout is given as the lines `ls -t ... | grep -v debug` printed
ParseListing(lines) == SelectSeq(lines, LAMBDA file : file # "")

----------------------------------------------------------------------------
(* search_string_in_logs (app.py:329-359) and last_time_joined             *)
(* (app.py:361-392) as one coroutine frame.                                *)

NoData == <<"N","o"," ","d","a","t","a">>
StillPlaying == <<"S","t","i","l","l"," ","p","l","a","y","i","n","g">>
ErrorText == <<"E","r","r","o","r">>

\* a stop condition that forgets the line budget
StopScanNoBudget(k, max, matched, count) ==
    k # Unbounded /\ Len(matched) >= k

\* a stop condition that lets one more match and one more line through
StopScanOffByOne(k, max, matched, count) ==
    \/ k # Unbounded /\ Len(matched) > k
    \/ max # Unbounded /\ count > max

\* the condition of app.py:344 and app.py:357
StopScan(k, max, matched, count) ==
    \/ k # Unbounded /\ Len(matched) >= k
    \/ max # Unbounded /\ count >= max

RECURSIVE ScanLines(_, _, _, _, _, _, _)
\* the inner loop, app.py:353-358, over lines[::-1] from position j on
ScanLines(rlines, j, needle, k, max, matched, count) ==
    IF j > Len(rlines) THEN [matched |-> matched, count |-> count]
    ELSE CHOOSE out \in
            {IF StopScan(k, max, m2, c2)
             THEN [matched |-> m2, count |-> c2]
             ELSE ScanLines(rlines, j + 1, needle, k, max, m2, c2) :
                c2 \in {count + 1},
                m2 \in {IF Contains(needle, rlines[j])
                        THEN Append(matched, rlines[j]) ELSE matched}} : TRUE

\* a coroutine frame before it has run
NewTask(caller, owner, username) ==
    [pc |-> "init", caller |-> caller, owner |-> owner, username |-> username,
     phase |-> "none",
     needle |-> <<>>, k |-> Unbounded, max |-> Unbounded,
     paths |-> <<>>, lerrs |-> <<>>, rerrs |-> <<>>, text |-> <<>>,
     i |-> 1, matched |-> <<>>, count |-> 0,
     rmatched |-> <<>>, rcount |-> 0, serrs |-> <<>>,
     joined_lines |-> <<>>, joined_line_count |-> 0, left_lines |-> <<>>,
     result |-> <<>>,
     \* history, read by no code: the searches entered, the remote calls
     \* dispatched, how many of them failed, and the cache keys found
     searches |-> <<>>, remote |-> <<>>, failures |-> 0, hits |-> <<>>]

Idle == NewTask("none", 0, <<>>)

\* entry of search_string_in_logs(string, k, max_search_lines, errors=[])
EnterSearch(t, string, k, max) ==
    [t EXCEPT !.pc = "search", !.needle = string, !.k = k, !.max = max,
              !.serrs = <<>>, !.lerrs = <<>>, !.rerrs = <<>>,
              !.searches = Append(@, [phase |-> t.phase, k |-> k, max |-> max,
                                      remoteBefore |-> Len(t.remote),
                                      hitsBefore |-> Len(t.hits)])]

\* return matched_lines, line_count
ReturnSearch(t, matched, count) ==
    [t EXCEPT !.pc = "ret", !.rmatched = matched, !.rcount = count]

\* list_log_files up to its remote call (app.py:299-302)
ListStep(t, c) ==
    IF ListKey \in DOMAIN c
    THEN [t EXCEPT !.pc = "listed", !.paths = c[ListKey], !.hits = Append(@, ListKey)]
    ELSE [t EXCEPT !.pc = "list_wait", !.remote = Append(@, ListKey)]

\* app.py:336-342
ListedStep(t) ==
    IF t.paths = <<>>
    THEN ReturnSearch(
            [t EXCEPT !.serrs = Append(@,
                Wrap("search_string_in_logs", "Failed to list log files", t.lerrs))],
            <<>>, -1)
    ELSE [t EXCEPT !.pc = "loop", !.matched = <<>>, !.count = 0, !.i = 1]

\* the head of the loop over the files, and read_log_file up to its remote
\* call (app.py:343-347, app.py:272-273)
LoopStep(t, c) ==
    IF t.i > Len(t.paths) \/ StopScan(t.k, t.max, t.matched, t.count)
    THEN ReturnSearch(t, t.matched, t.count)
    ELSE IF t.paths[t.i] \in DOMAIN c
         THEN [t EXCEPT !.pc = "read", !.text = c[t.paths[t.i]], !.rerrs = <<>>,
                        !.hits = Append(@, t.paths[t.i])]
         ELSE [t EXCEPT !.pc = "read_wait", !.rerrs = <<>>,
                        !.remote = Append(@, t.paths[t.i])]

\* a read failure that returns what was matched so far
ReadStepKeepsMatches(t) ==
    IF t.rerrs # <<>>
    THEN ReturnSearch(
            [t EXCEPT !.serrs = Append(@,
                Wrap("search_string_in_logs", "Failed to read log file", t.rerrs))],
            t.matched, t.count)
    ELSE CHOOSE after \in
            {[t EXCEPT !.pc = "loop", !.matched = r.matched, !.count = r.count,
                       !.i = @ + 1, !.text = <<>>] :
                r \in {ScanLines(rlines, 1, t.needle, t.k, t.max, t.matched, t.count) :
                          rlines \in {Reverse(Split(t.text, "\n"))}}} : TRUE

\* a version that reads the file again when the read has failed
ReadStepRetries(t) ==
    IF t.rerrs # <<>>
    THEN [t EXCEPT !.pc = "loop", !.text = <<>>]
    ELSE CHOOSE after \in
            {[t EXCEPT !.pc = "loop", !.matched = r.matched, !.count = r.count,
                       !.i = @ + 1, !.text = <<>>] :
                r \in {ScanLines(rlines, 1, t.needle, t.k, t.max, t.matched, t.count) :
                          rlines \in {Reverse(Split(t.text, "\n"))}}} : TRUE

\* app.py:348-358
ReadStep(t) ==
    IF t.rerrs # <<>>
    THEN ReturnSearch(
            [t EXCEPT !.serrs = Append(@,
                Wrap("search_string_in_logs", "Failed to read log file", t.rerrs))],
            <<>>, -1)
    ELSE CHOOSE after \in
            {[t EXCEPT !.pc = "loop", !.matched = r.matched, !.count = r.count,
                       !.i = @ + 1, !.text = <<>>] :
                r \in {ScanLines(rlines, 1, t.needle, t.k, t.max, t.matched, t.count) :
                          rlines \in {Reverse(Split(t.text, "\n"))}}} : TRUE

----------------------------------------------------------------------------
(* last_time_joined (app.py:361-392) *)

\* a search for the left pattern without a line budget
LeftBudgetUnbounded(t) == Unbounded

\* max_search_lines of the search for the left pattern (app.py:382)
LeftBudget(t) == t.joined_line_count

\* a version that answers the error pair when no joined line was found
JoinedRetConfused(t, acc) ==
    IF t.serrs # <<>> \/ t.rmatched = <<>>
    THEN [t |-> [t EXCEPT !.pc = "done", !.result = << <<>>, <<>> >>],
          acc |-> Append(acc, Wrap("last_time_joined",
                     "Error searching for joined pattern", t.serrs))]
    ELSE LET u == [t EXCEPT !.joined_lines = t.rmatched,
                            !.joined_line_count = t.rcount,
                            !.phase = "left"]
         IN [t |-> EnterSearch(u, LeftPattern(t.username), 1, t.rcount),
             acc |-> acc]

\* app.py:369-382: after the search for the joined pattern has returned.
\* acc is the errors list the caller passed in.
JoinedRet(t, acc) ==
    IF t.serrs # <<>>
    THEN [t |-> [t EXCEPT !.pc = "done", !.result = << <<>>, <<>> >>],
          acc |-> Append(acc, Wrap("last_time_joined",
                     "Error searching for joined pattern", t.serrs))]
    ELSE IF t.rmatched = <<>>
    THEN [t |-> [t EXCEPT !.pc = "done", !.result = <<NoData, NoData>>],
          acc |-> Append(acc, Leaf("last_time_joined", "No joined pattern found",
                     <<"No log lines found with pattern: ", JoinedPattern(t.username)>>))]
    ELSE LET u == [t EXCEPT !.joined_lines = t.rmatched,
                            !.joined_line_count = t.rcount,
                            !.phase = "left"]
         IN [t |-> EnterSearch(u, LeftPattern(t.username), 1, LeftBudget(u)),
             acc |-> acc]

\* a version that gives up the joined time when the left search fails
LeftRetLosesJoined(t, acc) ==
    LET joined_time == ExtractTime(t.joined_lines[1]) IN
    IF t.serrs # <<>>
    THEN [t |-> [t EXCEPT !.pc = "done", !.result = << <<>>, ErrorText>>],
          acc |-> Append(acc, Wrap("last_time_joined",
                     "Error searching for left pattern", t.serrs))]
    ELSE IF t.rmatched = <<>>
    THEN [t |-> [t EXCEPT !.pc = "done", !.result = <<joined_time, StillPlaying>>],
          acc |-> acc]
    ELSE [t |-> [t EXCEPT !.pc = "done", !.left_lines = t.rmatched,
                          !.result = <<joined_time, ExtractTime(t.rmatched[1])>>],
          acc |-> acc]

\* app.py:383-392: after the search for the left pattern has returned
LeftRet(t, acc) ==
    LET joined_time == ExtractTime(t.joined_lines[1]) IN
    IF t.serrs # <<>>
    THEN [t |-> [t EXCEPT !.pc = "done", !.result = <<joined_time, ErrorText>>],
          acc |-> Append(acc, Wrap("last_time_joined",
                     "Error searching for left pattern", t.serrs))]
    ELSE IF t.rmatched = <<>>
    THEN [t |-> [t EXCEPT !.pc = "done", !.result = <<joined_time, StillPlaying>>],
          acc |-> acc]
    ELSE [t |-> [t EXCEPT !.pc = "done", !.left_lines = t.rmatched,
                          !.result = <<joined_time, ExtractTime(t.rmatched[1])>>],
          acc |-> acc]

\* a direct caller of search_string_in_logs keeps what the call returned
\* and the errors list it passed
DirectRet(t, acc) ==
    [t |-> [t EXCEPT !.pc = "done",
               !.result = [matched |-> t.rmatched, count |-> t.rcount,
                           errors |-> t.serrs]],
     acc |-> acc]

\* the first instruction of a frame
Enter(t) ==
    IF t.caller = "last_time_joined"
    THEN EnterSearch([t EXCEPT !.phase = "joined"],
                     JoinedPattern(t.username), 1, Unbounded)
    ELSE EnterSearch(t, t.needle, t.k, t.max)

Suspended(t) == t.pc \in {"list_wait", "read_wait", "done"}

\* the locals of search_string_in_logs are gone once its caller has returned
DropLocals(t) ==
    [t EXCEPT !.paths = <<>>, !.matched = <<>>, !.rmatched = <<>>, !.serrs = <<>>,
              !.lerrs = <<>>, !.rerrs = <<>>, !.text = <<>>, !.needle =
                  IF t.caller = "last_time_joined" THEN <<>> ELSE @]

RECURSIVE Run(_, _, _)
\* Runs frame t until it dispatches a remote call or ends.  c is the cache,
\* which a frame only reads between two suspensions; acc is the caller's
\* errors list.  Every step is computed once, as the member r of a
\* one-element set, before the frame runs on from it.
Run(t, acc, c) ==
    IF t.pc = "done" THEN [t |-> DropLocals(t), acc |-> acc]
    ELSE IF Suspended(t) THEN [t |-> t, acc |-> acc]
    ELSE CHOOSE out \in
            {Run(r.t, r.acc, c) : r \in
                {IF t.pc = "init" THEN [t |-> Enter(t), acc |-> acc]
                 ELSE IF t.pc = "search" THEN [t |-> ListStep(t, c), acc |-> acc]
                 ELSE IF t.pc = "listed" THEN [t |-> ListedStep(t), acc |-> acc]
                 ELSE IF t.pc = "loop" THEN [t |-> LoopStep(t, c), acc |-> acc]
                 ELSE IF t.pc = "read" THEN [t |-> ReadStep(t), acc |-> acc]
                 ELSE IF t.caller # "last_time_joined" THEN DirectRet(t, acc)
                 ELSE IF t.phase = "joined" THEN JoinedRet(t, acc)
                 ELSE LeftRet(t, acc)}} : TRUE

\* list_log_files after its remote call (app.py:314-327)
ListReturn(t, ok, c) ==
    IF ok
    THEN LET log_files == ParseListing(listing)
         IN [t |-> [t EXCEPT !.pc = "listed", !.paths = log_files],
             c |-> CachePut(c, ListKey, log_files)]
    ELSE [t |-> [t EXCEPT !.pc = "listed", !.paths = <<>>,
                    !.failures = @ + 1,
                    !.lerrs = Append(@, Leaf("list_log_files",
                        "SSH Command Error when listing log files",
                        <<"Error: ", Stderr>>))],
          c |-> c]

\* a read that caches stdout without its final newline
ReadReturnCachesStripped(t, ok, c) ==
    LET file_path == t.paths[t.i]
        stdout == content[file_path]
        stripped == IF stdout # <<>> /\ stdout[Len(stdout)] = "\n"
                    THEN SubSeq(stdout, 1, Len(stdout) - 1) ELSE stdout
    IN IF ok
       THEN [t |-> [t EXCEPT !.pc = "read", !.text = stdout],
             c |-> CachePut(c, file_path, stripped)]
       ELSE [t |-> [t EXCEPT !.pc = "read", !.text = <<>>,
                       !.failures = @ + 1,
                       !.rerrs = Append(@, Leaf("read_log_file",
                           "SSH Command Error when reading log file",
                           <<"Error when reading ", file_path, ": ", Stderr>>))],
             c |-> c]

\* read_log_file after its remote call (app.py:283-293)
ReadReturn(t, ok, c) ==
    LET file_path == t.paths[t.i] IN
    IF ok
    THEN [t |-> [t EXCEPT !.pc = "read", !.text = content[file_path]],
          c |-> CachePut(c, file_path, content[file_path])]
    ELSE [t |-> [t EXCEPT !.pc = "read", !.text = <<>>,
                    !.failures = @ + 1,
                    !.rerrs = Append(@, Leaf("read_log_file",
                        "SSH Command Error when reading log file",
                        <<"Error when reading ", file_path, ": ", Stderr>>))],
          c |-> c]

----------------------------------------------------------------------------
(* parse_log_time (utils.py:65-66): datetime.strptime(s, "%d%b%Y %H:%M:%S") *)

Digits == {"0","1","2","3","4","5","6","7","8","9"}

DigitVal(d) == CHOOSE v \in 0..9 : <<"0","1","2","3","4","5","6","7","8","9">>[v + 1] = d

Months == { <<"J","a","n">>, <<"F","e","b">>, <<"M","a","r">>, <<"A","p","r">>,
            <<"M","a","y">>, <<"J","u","n">>, <<"J","u","l">>, <<"A","u","g">>,
            <<"S","e","p">>, <<"O","c","t">>, <<"N","o","v">>, <<"D","e","c">> }

\* one or two digits whose value lies in lo..hi
NumberIn(s, lo, hi) ==
    /\ Len(s) \in {1, 2}
    /\ \A i \in 1..Len(s) : s[i] \in Digits
    /\ LET v == IF Len(s) = 1 THEN DigitVal(s[1])
                ELSE 10 * DigitVal(s[1]) + DigitVal(s[2])
       IN v >= lo /\ v <= hi

\* TRUE when strptime accepts s, FALSE when it raises ValueError: the whole
\* of s must read as day, month name, four-digit year, white space,
\* hour:minute:second
ParsesAsLogTime(s) ==
    \E ld \in 1..2, lsp \in 1..Len(s), lh \in 1..2, lm \in 1..2, ls \in 1..2 :
        LET a == ld + 3
            b == a + 4
            e == b + lsp
            f == e + lh + 1
            g == f + lm + 1
        IN /\ Len(s) = g + ls
           /\ NumberIn(SubSeq(s, 1, ld), 1, 31)
           /\ SubSeq(s, ld + 1, a) \in Months
           /\ \A i \in (a + 1)..b : s[i] \in Digits
           /\ \A i \in (b + 1)..e : s[i] = " "
           /\ NumberIn(SubSeq(s, e + 1, e + lh), 0, 23)
           /\ s[e + lh + 1] = ":"
           /\ NumberIn(SubSeq(s, f + 1, f + lm), 0, 59)
           /\ s[f + lm + 1] = ":"
           /\ NumberIn(SubSeq(s, g + 1, g + ls), 0, 61)

----------------------------------------------------------------------------
(* The last_joined command (app.py:682-721) *)

\* minecraft_server/usernamecache.json on the remote host: uuid -> username,
\* in file order
UsernameCache == << [uuid |-> "uuid-1", username |-> Alice],
                    [uuid |-> "uuid-2", username |-> Bob] >>

BatchIds == {1}

\* the task ids: <<0, 1>> is the direct caller of search_string_in_logs,
\* <<b, n>> the n-th coroutine that command b hands to asyncio.gather
DirectId == <<0, 1>>
TaskIds == {DirectId} \cup (BatchIds \X (1..Len(UsernameCache)))

\* the command's argument when no username is given
None == <<>>

NoResponse == [kind |-> "none", entries |-> <<>>]

IdleBatch ==
    [pc |-> "idle", usernames |-> <<>>, errors |-> <<>>, response |-> NoResponse]

\* app.py:704-721: the reply once the gathered results are in
Reply(usernames_lst, errors, last_joined_lst) ==
    IF errors # <<>>
    THEN [kind |-> "failure", entries |-> <<>>]
    ELSE IF \E n \in 1..Len(usernames_lst) :
                \/ ~ParsesAsLogTime(last_joined_lst[n][1])
                \/ /\ last_joined_lst[n][2] # StillPlaying
                   /\ ~ParsesAsLogTime(last_joined_lst[n][2])
    THEN [kind |-> "raised", entries |-> <<>>]
    ELSE [kind |-> "sent",
          entries |-> [n \in 1..Len(usernames_lst) |->
                          <<usernames_lst[n], last_joined_lst[n][1],
                            last_joined_lst[n][2]>>]]

\* app.py:700-702: errors = [], cache = {}, one coroutine per username
Gather(b, usernames_lst) ==
    /\ cache' = EmptyCache
    /\ task' = [id \in DOMAIN task |->
                  IF id[1] = b /\ id[2] <= Len(usernames_lst)
                  THEN NewTask("last_time_joined", b, usernames_lst[id[2]])
                  ELSE task[id]]
    /\ batch' = [batch EXCEPT ![b] = [@ EXCEPT !.pc = "gather",
                     !.usernames = usernames_lst, !.errors = <<>>]]

\* %mine last_joined <username>: app.py:698-702
LastJoinedOne(b, username) ==
    /\ batch[b].pc = "idle"
    /\ Gather(b, <<username>>)
    /\ UNCHANGED <<listing, content, calls, nonLogVars>>

\* %mine last_joined: app.py:695 up to the remote call of get_players
LastJoinedAll(b) ==
    /\ batch[b].pc = "idle"
    /\ batch' = [batch EXCEPT ![b] = [@ EXCEPT !.pc = "get_players_wait"]]
    /\ UNCHANGED <<listing, content, cache, task, calls, nonLogVars>>

\* get_players returns its mapping (app.py:140-153), then app.py:696-702
GetPlayersOk(b) ==
    /\ batch[b].pc = "get_players_wait"
    /\ Gather(b, [n \in 1..Len(UsernameCache) |-> UsernameCache[n].username])
    /\ UNCHANGED <<listing, content, calls, nonLogVars>>

\* get_players fails and returns {} (app.py:145-147): usernames_lst is empty,
\* gather has nothing to wait for and app.py:700-721 runs through
GetPlayersFail(b) ==
    /\ batch[b].pc = "get_players_wait"
    /\ cache' = EmptyCache
    /\ batch' = [batch EXCEPT ![b] = [@ EXCEPT !.pc = "done",
                     !.usernames = <<>>, !.errors = <<>>,
                     !.response = Reply(<<>>, <<>>, <<>>)]]
    /\ UNCHANGED <<listing, content, task, calls, nonLogVars>>

MyTasks(b) == {id \in DOMAIN task : id[1] = b /\ id[2] <= Len(batch[b].usernames)}

\* app.py:703-721: gather has returned
Finish(b) ==
    /\ batch[b].pc = "gather"
    /\ \A id \in MyTasks(b) : task[id].pc = "done"
    /\ cache' = EmptyCache
    /\ batch' = [batch EXCEPT ![b] = [@ EXCEPT !.pc = "done",
                     !.response = Reply(batch[b].usernames, batch[b].errors,
                        [n \in 1..Len(batch[b].usernames) |-> task[<<b, n>>].result])]]
    /\ UNCHANGED <<listing, content, task, calls, nonLogVars>>

----------------------------------------------------------------------------
(* The steps of the coroutines *)

\* the errors list frame id appends to
Acc(id) == IF id[1] \in DOMAIN batch THEN batch[id[1]].errors ELSE <<>>

\* the state after frame id, resumed as t with cache c, has run to its next
\* suspension
Settle(id, t, c) ==
    \E r \in {Run(frame, acc, cc) : frame \in {t}, acc \in {Acc(id)}, cc \in {c}} :
    /\ cache' = c
    /\ IF id = DirectId
       THEN /\ batch' = batch
            /\ IF r.t.pc = "done"
               THEN /\ calls' = Append(calls, r.t.result)
                    /\ task' = [task EXCEPT ![id] =
                                  [r.t EXCEPT !.pc = "init", !.result = <<>>]]
               ELSE /\ calls' = calls
                    /\ task' = [task EXCEPT ![id] = r.t]
       ELSE /\ batch' = [batch EXCEPT ![id[1]] = [@ EXCEPT !.errors = r.acc]]
            /\ task' = [task EXCEPT ![id] = r.t]
            /\ calls' = calls
    /\ UNCHANGED <<listing, content, nonLogVars>>

\* a gathered coroutine runs for the first time
Start(id) ==
    /\ id[1] \in DOMAIN batch
    /\ task[id].pc = "init"
    /\ task[id].caller = "last_time_joined"
    /\ Settle(id, task[id], cache)

\* the remote `ls` of list_log_files ends with exit status 0
ListOk(id) ==
    /\ task[id].pc = "list_wait"
    /\ \E r \in {ListReturn(task[id], TRUE, cache)} : Settle(id, r.t, r.c)

\* the remote `ls` ends with a non-zero exit status
ListFail(id) ==
    /\ task[id].pc = "list_wait"
    /\ \E r \in {ListReturn(task[id], FALSE, cache)} : Settle(id, r.t, r.c)

\* the remote `cat`/`zcat` of read_log_file ends with exit status 0
ReadOk(id) ==
    /\ task[id].pc = "read_wait"
    /\ \E r \in {ReadReturn(task[id], TRUE, cache)} : Settle(id, r.t, r.c)

\* the remote `cat`/`zcat` ends with a non-zero exit status
ReadFail(id) ==
    /\ task[id].pc = "read_wait"
    /\ \E r \in {ReadReturn(task[id], FALSE, cache)} : Settle(id, r.t, r.c)

----------------------------------------------------------------------------
(* extract_json_objects (utils.py:47-63) *)

\* the first position from i on that holds a brace, Len(text) + 1 if none:
\* the characters before it change nothing in the loop of utils.py:54-62
NextBrace(text, i) ==
    LET later == {j \in i..Len(text) : text[j] \in {"{", "}"}}
    IN IF later = {} THEN Len(text) + 1
       ELSE CHOOSE j \in later : \A h \in later : j <= h

RECURSIVE ExtractLoop(_, _, _, _, _)
\* the loop of utils.py:54-62 from character i on
ExtractLoop(text, i, open_brackets, start_index, json_objects) ==
    IF i > Len(text) THEN json_objects
    ELSE IF text[i] = "{"
    THEN ExtractLoop(text, i + 1, open_brackets + 1,
                     IF open_brackets = 0 THEN i ELSE start_index, json_objects)
    ELSE IF text[i] = "}"
    THEN ExtractLoop(text, i + 1, open_brackets - 1, start_index,
                     IF open_brackets - 1 = 0
                     THEN Append(json_objects, SubSeq(text, start_index, i))
                     ELSE json_objects)
    ELSE ExtractLoop(text, NextBrace(text, i + 1), open_brackets, start_index,
                     json_objects)

RECURSIVE ExtractLoopLastOpen(_, _, _, _, _)
\* a loop that moves start_index to every opening brace it meets
ExtractLoopLastOpen(text, i, open_brackets, start_index, json_objects) ==
    IF i > Len(text) THEN json_objects
    ELSE IF text[i] = "{"
    THEN ExtractLoopLastOpen(text, i + 1, open_brackets + 1, i, json_objects)
    ELSE IF text[i] = "}"
    THEN ExtractLoopLastOpen(text, i + 1, open_brackets - 1, start_index,
                     IF open_brackets - 1 = 0
                     THEN Append(json_objects, SubSeq(text, start_index, i))
                     ELSE json_objects)
    ELSE ExtractLoopLastOpen(text, i + 1, open_brackets, start_index, json_objects)

\* spans that start at the last opening brace instead of the outermost one
ExtractJsonObjectsLastOpen(text) == ExtractLoopLastOpen(text, 1, 0, 1, <<>>)

\* a slice that stops one character early: text[start_index:i]
ExtractJsonObjectsShort(text) ==
    LET spans == ExtractLoop(text, 1, 0, 1, <<>>)
    IN [n \in 1..Len(spans) |-> SubSeq(spans[n], 1, Len(spans[n]) - 1)]

\* extract_json_objects(text); positions are 1-based here, so start_index
\* starts at 1 where the code starts it at 0
ExtractJsonObjects(text) == ExtractLoop(text, 1, 0, 1, <<>>)

\* nothing has been given to build_errors_string
RenderIdle == render = [done |-> FALSE, errors |-> <<>>, out |-> <<>>]

\* no input has been given to extract_json_objects
JsonIdle ==
    /\ jsonParts = <<>>
    /\ jsonTail = <<>>
    /\ jsonOut = [done |-> FALSE, spans |-> <<>>]

----------------------------------------------------------------------------
(* The player data: get_players (app.py:128-153), get_player_stats          *)
(* (app.py:155-190), update_players_data (app.py:192-224) and the commands  *)
(* list_players (app.py:563-580) and playtime (app.py:588-636)              *)

\* the usernamecache.json of UsernameCache, as `cat` prints it
UsersText ==
    <<"{","\"","u","u","i","d","-","1","\"",":","\"","A","l","i","c","e",
      "\"",",","\"","u","u","i","d","-","2","\"",":","\"","B","o","b","\"",
      "}">>

\* a usernamecache.json that holds no player
UsersEmpty == <<"{", "}">>

\* an output cut off in the middle
UsersTruncated ==
    <<"{","\"","u","u","i","d","-","1","\"",":","\"","A","l">>

\* the start of a statistics file, up to the value of minecraft:play_time
StatsHead ==
    <<"{","\"","s","t","a","t","s","\"",":","{","\"","m","i","n","e","c",
      "r","a","f","t",":","c","u","s","t","o","m","\"",":","{","\"","m","i",
      "n","e","c","r","a","f","t",":","p","l","a","y","_","t","i","m","e",
      "\"",":">>

StatsClose == <<"}", "}", "}">>

\* a statistics file without a minecraft:custom entry
StatsNoCustom ==
    <<"{","\"","s","t","a","t","s","\"",":","{","}","}">>

\* a brace-delimited text that is no JSON: {stats}
StatsUnquoted ==
    <<"{","s","t","a","t","s","}">>

\* a statistics file whose play_time is written with the given digits
StatsText(digits) == StatsHead \o digits \o StatsClose

\* a statistics file cut off before its braces close
StatsTruncated == StatsHead \o <<"1", "2">>

RECURSIVE ParseInt(_)
\* int(digits) for a non-empty sequence of decimal digits
ParseInt(digits) ==
    IF Len(digits) = 1 THEN DigitVal(digits[1])
    ELSE 10 * ParseInt(SubSeq(digits, 1, Len(digits) - 1)) + DigitVal(digits[Len(digits)])

\* a JSON integer: digits, without a leading zero unless it is "0"
IsJsonInt(s) ==
    /\ s # <<>>
    /\ \A i \in 1..Len(s) : s[i] \in Digits
    /\ Len(s) > 1 => s[1] # "0"

\* json.loads accepts the output of `cat usernamecache.json`: of the texts
\* the remote host can print here, the full mapping and {} are JSON
UsersIsJson(stdout) == stdout \in {UsersText, UsersEmpty}

\* json.loads(stdout) for such a text: uuid -> username, in file order
UsersLoads(stdout) == IF stdout = UsersText THEN UsernameCache ELSE <<>>

\* json.loads accepts a span of the statistics output
StatsIsJson(span) ==
    \/ span \in {StatsNoCustom, <<"{", "}">>}
    \/ /\ Len(span) > Len(StatsHead) + Len(StatsClose)
       /\ SubSeq(span, 1, Len(StatsHead)) = StatsHead
       /\ SubSeq(span, Len(span) - Len(StatsClose) + 1, Len(span)) = StatsClose
       /\ IsJsonInt(SubSeq(span, Len(StatsHead) + 1, Len(span) - Len(StatsClose)))

\* json.loads(span).get("stats", {}) for such a span, kept as what
\* .get("minecraft:custom", {}).get("minecraft:play_time") finds in it
StatsLoads(span) ==
    IF span \in {StatsNoCustom, <<"{", "}">>}
    THEN [hasPlayTime |-> FALSE, play_time |-> 0]
    ELSE [hasPlayTime |-> TRUE,
          play_time |-> ParseInt(SubSeq(span, Len(StatsHead) + 1,
                                        Len(span) - Len(StatsClose)))]

\* stats.get("minecraft:custom", {}).get("minecraft:play_time", 0)
PlayTime(stats) == IF stats.hasPlayTime THEN stats.play_time ELSE 0

\* get_players after its remote call (app.py:140-153)
GetPlayersReturn(exit, stdout, errors) ==
    IF exit # 0
    THEN [value |-> <<>>,
          errors |-> Append(errors, Leaf("get_players",
                        "SSH Command Error when reading usernames", <<Stderr>>))]
    ELSE IF ~UsersIsJson(stdout)
    THEN [value |-> <<>>,
          errors |-> Append(errors, Leaf("get_players",
                        "Invalid JSON output when reading usernames", stdout))]
    ELSE [value |-> UsersLoads(stdout), errors |-> errors]

\* a version that reports an output whose objects are not one per uuid
GetPlayerStatsReturnCounted(exit, stdout, uuids, errors) ==
    LET json_objects == ExtractJsonObjects(stdout) IN
    IF exit # 0
    THEN [value |-> <<>>,
          errors |-> Append(errors, Leaf("get_player_stats",
                        "SSH Command Error when reading player stats", <<Stderr>>))]
    ELSE IF \/ \E n \in 1..Len(json_objects) : ~StatsIsJson(json_objects[n])
            \/ Len(json_objects) # Len(uuids)
    THEN [value |-> <<>>,
          errors |-> Append(errors, Leaf("get_player_stats",
                        "Invalid JSON output when reading player stats",
                        <<"JSONDecodeError">>))]
    ELSE [value |-> [n \in 1..Len(uuids) |->
                        [uuid |-> uuids[n], stats |-> StatsLoads(json_objects[n])]],
          errors |-> errors]

\* get_player_stats after its remote call (app.py:168-190): the returned
\* dict as the sequence of its items
GetPlayerStatsReturn(exit, stdout, uuids, errors) ==
    LET json_objects == ExtractJsonObjects(stdout) IN
    IF exit # 0
    THEN [value |-> <<>>,
          errors |-> Append(errors, Leaf("get_player_stats",
                        "SSH Command Error when reading player stats", <<Stderr>>))]
    ELSE IF \E n \in 1..Len(json_objects) : ~StatsIsJson(json_objects[n])
    THEN [value |-> <<>>,
          errors |-> Append(errors, Leaf("get_player_stats",
                        "Invalid JSON output when reading player stats",
                        <<"JSONDecodeError">>))]
    ELSE [value |-> [n \in 1..(IF Len(uuids) < Len(json_objects)
                               THEN Len(uuids) ELSE Len(json_objects)) |->
                        [uuid |-> uuids[n], stats |-> StatsLoads(json_objects[n])]],
          errors |-> errors]

\* a dict without entries
NoPlayers == [u \in {} |-> <<>>]

\* datetime.now().strftime("%Y-%m-%d %H:%M:%S") at the time of the refresh
Now == "2024-01-04 00:00:00"

\* no command is running; file is the content of data/players.json
NoCommand(file) ==
    [name |-> "none", pc |-> "idle", tgt_username |-> None,
     errors |-> <<>>, players |-> <<>>, uuids |-> <<>>,
     old_players_data |-> NoPlayers,
     players_data |-> [last_updated |-> "", players |-> NoPlayers],
     reply |-> [kind |-> "none", text |-> "", entries |-> <<>>],
     \* history, read by no code: the errors lists handed to log_errors, the
     \* remote operations that returned, the file when the command started
     logged |-> <<>>, ops |-> <<>>, fileBefore |-> file]

\* update_players_data up to its call of get_players (app.py:197-201)
StartUpdate(file) ==
    [NoCommand(file) EXCEPT !.name = "update_players_data",
        !.pc = "get_players_wait",
        !.old_players_data = file.players,
        !.players_data = [file EXCEPT !.last_updated = Now]]

\* a failed refresh that records nothing
RefreshFailedSilently(c, message, children) == [c EXCEPT !.pc = "done"]

\* app.py:203-204 and app.py:214-215: the refresh gives up
RefreshFailed(c, message, children) ==
    [c EXCEPT !.pc = "done",
              !.errors = Append(@, Wrap("update_players_data", message, children))]

\* player_data of app.py:218-221 for one uuid
MergedRecord(old, uuid, username, seconds) ==
    LET player_data == IF uuid \in DOMAIN old THEN old[uuid] ELSE NoPlayers IN
    [field \in DOMAIN player_data \cup {"username", "playtime"} |->
        IF field = "username" THEN username
        ELSE IF field = "playtime" THEN seconds
        ELSE player_data[field]]

\* all_players_stats.get(uuid, {}) read for its play time
PlayTimeOf(all_players_stats, uuid) ==
    IF \E n \in 1..Len(all_players_stats) : all_players_stats[n].uuid = uuid
    THEN PlayTime(all_players_stats[CHOOSE n \in 1..Len(all_players_stats) :
                                        all_players_stats[n].uuid = uuid].stats)
    ELSE 0

\* the username players[uuid]
UsernameOf(players, uuid) ==
    players[CHOOSE n \in 1..Len(players) : players[n].uuid = uuid].username

RECURSIVE SortedDesc(_)
\* sorted(items, key=playtime, reverse=True): stable, largest first
SortedDesc(items) ==
    IF items = <<>> THEN <<>>
    ELSE LET first == CHOOSE n \in 1..Len(items) :
                        /\ \A m \in 1..Len(items) : items[m].playtime <= items[n].playtime
                        /\ \A m \in 1..(n - 1) : items[m].playtime < items[n].playtime
         IN <<items[first]>> \o
            SortedDesc(SubSeq(items, 1, first - 1) \o SubSeq(items, first + 1, Len(items)))

\* the reply of a command
Sent(kind, text, entries) == [kind |-> kind, text |-> text, entries |-> entries]

\* update_players_data, list_players and playtime after get_players has
\* returned r (app.py:202-211, app.py:574-580, app.py:599-614)
AfterGetPlayers(c, r) ==
    IF c.name = "update_players_data"
    THEN IF r.value = <<>>
         THEN RefreshFailed(c, "Failed to get players data", r.errors)
         ELSE [c EXCEPT !.pc = "stats_wait", !.players = r.value,
                        !.uuids = [n \in 1..Len(r.value) |-> r.value[n].uuid],
                        !.players_data = [@ EXCEPT !.players = NoPlayers]]
    ELSE IF c.name = "list_players"
    THEN IF r.value = <<>>
         THEN [c EXCEPT !.pc = "done", !.errors = r.errors,
                        !.logged = Append(@, <<Wrap("get_players",
                                       "Failed to get players data.", r.errors)>>),
                        !.reply = Sent("failure", "Failed to get players data.", <<>>)]
         ELSE [c EXCEPT !.pc = "done", !.players = r.value,
                        !.reply = Sent("players", "Players on the server: ",
                                       [n \in 1..Len(r.value) |-> r.value[n].username])]
    ELSE LET players_lst ==
                 SelectSeq(r.value, LAMBDA item :
                     c.tgt_username = None \/ item.username = c.tgt_username)
         IN IF players_lst = <<>>
            THEN [c EXCEPT !.pc = "done", !.players = r.value,
                           !.reply = Sent("not_found", "No player with username found.",
                                          <<c.tgt_username>>)]
            ELSE [c EXCEPT !.pc = "stats_wait", !.players = r.value,
                           !.uuids = [n \in 1..Len(players_lst) |-> players_lst[n].uuid]]

\* update_players_data and playtime after get_player_stats has returned r
\* (app.py:213-224, app.py:615-636)
AfterGetPlayerStats(c, r) ==
    IF c.name = "update_players_data"
    THEN IF r.value = <<>>
         THEN RefreshFailed(c, "Failed to get player stats", r.errors)
         ELSE [c EXCEPT !.pc = "done",
                  !.players_data = [@ EXCEPT !.players =
                      [uuid \in {c.uuids[n] : n \in 1..Len(c.uuids)} |->
                          MergedRecord(c.old_players_data, uuid,
                                       UsernameOf(c.players, uuid),
                                       PlayTimeOf(r.value, uuid) \div 20)]]]
    ELSE IF r.value = <<>>
         THEN [c EXCEPT !.pc = "done",
                        !.logged = Append(@, <<Wrap("playtime",
                                       "Failed to get player stats.", r.errors)>>),
                        !.reply = Sent("failure", "Failed to get player stats.", <<>>)]
         ELSE LET playtime_dict ==
                      [n \in 1..Len(r.value) |->
                          [username |-> UsernameOf(c.players, r.value[n].uuid),
                           playtime |-> PlayTime(r.value[n].stats) \div 20]]
                  sorted == SortedDesc(playtime_dict)
              IN [c EXCEPT !.pc = "done",
                     !.reply = Sent("playtime", "Playtime:",
                        [n \in 1..Len(sorted) |->
                            [username |-> sorted[n].username,
                             hours |-> sorted[n].playtime \div 3600,
                             minutes |-> (sorted[n].playtime % 3600) \div 60]])]

\* what `cat` prints for the statistics files of uuids
StatsOut(uuids) == Concat([n \in 1..Len(uuids) |-> statsFiles[uuids[n]]])

\* the record of one returned remote operation
Returned(op, exit, stdout, r) ==
    [op |-> op, exit |-> exit, stdout |-> stdout, value |-> r.value, errors |-> r.errors]

\* the daily update starts (app.py:426-433)
DailyUpdate ==
    /\ cmd.pc = "idle"
    /\ cmd' = StartUpdate(playersFile)
    /\ UNCHANGED <<render, usersOut, statsFiles, playersFile, permVars>>
    /\ UNCHANGED <<listing, content, cache, task, batch, calls, jsonParts, jsonTail, jsonOut>>

\* %mine list_players up to its call of get_players (app.py:569-573)
ListPlayers ==
    /\ cmd.pc = "idle"
    /\ cmd' = [NoCommand(playersFile) EXCEPT !.name = "list_players",
                                             !.pc = "get_players_wait"]
    /\ UNCHANGED <<render, usersOut, statsFiles, playersFile, permVars>>
    /\ UNCHANGED <<listing, content, cache, task, batch, calls, jsonParts, jsonTail, jsonOut>>

\* %mine playtime (username) up to its call of get_players (app.py:595-597)
Playtime(tgt_username) ==
    /\ cmd.pc = "idle"
    /\ cmd' = [NoCommand(playersFile) EXCEPT !.name = "playtime",
                                             !.pc = "get_players_wait",
                                             !.tgt_username = tgt_username]
    /\ UNCHANGED <<render, usersOut, statsFiles, playersFile, permVars>>
    /\ UNCHANGED <<listing, content, cache, task, batch, calls, jsonParts, jsonTail, jsonOut>>

\* the remote command of get_players has ended with the given exit status
PlayersFetched(exit) ==
    /\ cmd.pc = "get_players_wait"
    /\ \E r \in {GetPlayersReturn(exit, usersOut, <<>>)} :
          cmd' = AfterGetPlayers(
                    [cmd EXCEPT !.ops = Append(@, Returned("get_players", exit, usersOut, r))], r)
    /\ UNCHANGED <<render, usersOut, statsFiles, playersFile, permVars>>
    /\ UNCHANGED <<listing, content, cache, task, batch, calls, jsonParts, jsonTail, jsonOut>>

\* the remote `cat` of get_players ends with exit status 0
FetchPlayersOk ==
    /\ cmd.pc = "get_players_wait"
    /\ PlayersFetched(0)

\* the remote `cat` of get_players ends with a non-zero exit status
FetchPlayersFail ==
    /\ cmd.pc = "get_players_wait"
    /\ PlayersFetched(1)


\* the remote command of get_player_stats has ended with the given exit status
StatsFetched(exit) ==
    /\ cmd.pc = "stats_wait"
    /\ \E r \in {GetPlayerStatsReturn(exit, StatsOut(cmd.uuids), cmd.uuids, <<>>)} :
          cmd' = AfterGetPlayerStats(
                    [cmd EXCEPT !.ops = Append(@, Returned("get_player_stats", exit,
                                                      StatsOut(cmd.uuids), r))], r)
    /\ UNCHANGED <<render, usersOut, statsFiles, playersFile, permVars>>
    /\ UNCHANGED <<listing, content, cache, task, batch, calls, jsonParts, jsonTail, jsonOut>>

\* the remote `cat` of get_player_stats ends with exit status 0
FetchStatsOk ==
    /\ cmd.pc = "stats_wait"
    /\ StatsFetched(0)

\* the remote `cat` of get_player_stats ends with a non-zero exit status
FetchStatsFail ==
    /\ cmd.pc = "stats_wait"
    /\ StatsFetched(1)


\* the files and remote outputs of a host whose players are UsernameCache
PlayersFixture ==
    /\ usersOut = UsersText
    /\ statsFiles = [uuid \in {UsernameCache[n].uuid : n \in 1..Len(UsernameCache)} |->
                        StatsText(<<"0">>)]
    /\ playersFile = [last_updated |-> "2024-01-03 00:00:00", players |-> NoPlayers]

\* no command has been given
PlayersIdle ==
    /\ PlayersFixture
    /\ cmd = NoCommand(playersFile)

----------------------------------------------------------------------------
(* The permission-gated commands: owner_command and privileged_command      *)
(* (app.py:64-105), grant_privileges and revoke_privileges                  *)
(* (app.py:520-555), command and say (app.py:645-674), run_command and      *)
(* run_script (app.py:226-265)                                              *)

\* str(ctx.author) of the users who write to the bot; Ada is the owner,
\* str(await bot.fetch_user(OWNER_ID))
Ada == <<"A", "d", "a">>
Ben == <<"B", "e", "n">>
Cy == <<"C", "y">>
Authors == {Ada, Ben, Cy}

RECURSIVE Join(_, _)
\* sep.join(parts)
Join(parts, sep) ==
    IF parts = <<>> THEN <<>>
    ELSE IF Len(parts) = 1 THEN parts[1]
    ELSE parts[1] \o <<sep>> \o Join(Tail(parts), sep)

\* load_privileged_users (app.py:64-66) on the text of the file
LoadPrivilegedUsers(file) == Split(file, "\n")

\* what save_privileged_users writes (app.py:68-69)
SavedPrivilegedUsers(users) == Join(users, "\n")

\* a check that lets everybody pass
IsOwnerUserAnyone(username) == TRUE

\* is_owner_user (app.py:71-72)
IsOwnerUser(username) == username = Ada

\* a check that forgets the list
IsPrivilegedUserAnyone(username, privileged_users) == TRUE

\* is_privileged_user (app.py:74-79), privileged_users as loaded
IsPrivilegedUser(username, privileged_users) ==
    IsOwnerUser(username) \/ \E n \in 1..Len(privileged_users) : privileged_users[n] = username

\* users.remove(username): without the first occurrence
Remove(users, username) ==
    LET n == CHOOSE m \in 1..Len(users) :
                users[m] = username /\ \A h \in 1..(m - 1) : users[h] # username
    IN SubSeq(users, 1, n - 1) \o SubSeq(users, n + 1, Len(users))

\* run_script after its remote call (app.py:242-249)
RunScriptReturn(exit, command, errors) ==
    IF exit # 0
    THEN [value |-> FALSE,
          errors |-> Append(errors, Leaf("run_script",
                        "SSH Command Error when running script",
                        <<"Error when running ", command, ": ", Stderr>>))]
    ELSE [value |-> TRUE, errors |-> errors]

\* a command that nobody has invoked
NoCtx ==
    [command |-> "none", author |-> <<>>, arg |-> <<>>, pc |-> "none",
     privileged_users |-> <<>>, reply |-> "", logged |-> <<>>,
     \* history, read by no code: the file as the permission check read it
     fileAtCheck |-> <<>>]

OwnerCommands == {"command", "grant_privileges", "revoke_privileges"}

\* a message `%mine <command> <arg>` of author arrives: the wrapper is
\* entered and waits for the first thing it awaits (app.py:85, app.py:98)
Invoke(id, command, author, arg) ==
    /\ ctxs[id].pc = "none"
    /\ ctxs' = [ctxs EXCEPT ![id] = [NoCtx EXCEPT !.command = command,
                   !.author = author, !.arg = arg,
                   !.pc = IF command \in OwnerCommands THEN "owner_wait" ELSE "load_wait"]]
    /\ UNCHANGED <<privilegedFile, scriptsRun>>
    /\ UNCHANGED <<render, usersOut, statsFiles, playersFile, cmd>>
    /\ UNCHANGED <<listing, content, cache, task, batch, calls, jsonParts, jsonTail, jsonOut>>

\* is_privileged_user has read the file (app.py:75)
CheckLoad(id) ==
    /\ ctxs[id].pc = "load_wait"
    /\ ctxs' = [ctxs EXCEPT ![id] = [@ EXCEPT !.pc = "owner_wait",
                   !.privileged_users = LoadPrivilegedUsers(privilegedFile),
                   !.fileAtCheck = privilegedFile]]
    /\ UNCHANGED <<privilegedFile, scriptsRun>>
    /\ UNCHANGED <<render, usersOut, statsFiles, playersFile, cmd>>
    /\ UNCHANGED <<listing, content, cache, task, batch, calls, jsonParts, jsonTail, jsonOut>>

\* bot.fetch_user has returned: the wrapper decides (app.py:85-89,
\* app.py:76-79 and app.py:98-102)
CheckOwner(id) ==
    /\ ctxs[id].pc = "owner_wait"
    /\ LET allowed == IF ctxs[id].command \in OwnerCommands
                      THEN IsOwnerUser(ctxs[id].author)
                      ELSE IsPrivilegedUser(ctxs[id].author, ctxs[id].privileged_users)
       IN ctxs' = [ctxs EXCEPT ![id] =
                     IF allowed THEN [@ EXCEPT !.pc = "body"]
                     ELSE [@ EXCEPT !.pc = "done",
                              !.reply = "You do not have permission to use this command."]]
    /\ UNCHANGED <<privilegedFile, scriptsRun>>
    /\ UNCHANGED <<render, usersOut, statsFiles, playersFile, cmd>>
    /\ UNCHANGED <<listing, content, cache, task, batch, calls, jsonParts, jsonTail, jsonOut>>

\* the body of command or say up to the remote call of run_script
\* (app.py:652-654, app.py:670-674, app.py:253-255, app.py:234-240)
RunCommand(id) ==
    /\ ctxs[id].pc = "body"
    /\ ctxs[id].command \in {"command", "say"}
    /\ LET command_arg == IF ctxs[id].command = "say"
                          THEN <<"/", "s", "a", "y", " ">> \o ctxs[id].arg
                          ELSE ctxs[id].arg
       IN scriptsRun' = Append(scriptsRun,
                           [id |-> id, script |-> "run_mc_command.sh",
                            args |-> <<"\"\\\"", command_arg, "\\\"\"">>])
    /\ ctxs' = [ctxs EXCEPT ![id] = [@ EXCEPT !.pc = "script_wait"]]
    /\ UNCHANGED privilegedFile
    /\ UNCHANGED <<render, usersOut, statsFiles, playersFile, cmd>>
    /\ UNCHANGED <<listing, content, cache, task, batch, calls, jsonParts, jsonTail, jsonOut>>

\* run_script has returned r: the rest of run_command (app.py:256-265)
AfterRunScript(c, r) ==
    IF ~r.value
    THEN [c EXCEPT !.pc = "done", !.reply = "Failed to run script.",
                   !.logged = Append(@, <<Wrap("command", "Failed to run script.",
                                           r.errors)>>)]
    ELSE [c EXCEPT !.pc = "done", !.reply = "reaction: check mark"]

\* the remote script ends with exit status 0
ScriptOk(id) ==
    /\ ctxs[id].pc = "script_wait"
    /\ ctxs' = [ctxs EXCEPT ![id] =
                  AfterRunScript(@, RunScriptReturn(0, "run_mc_command.sh", <<>>))]
    /\ UNCHANGED <<privilegedFile, scriptsRun>>
    /\ UNCHANGED <<render, usersOut, statsFiles, playersFile, cmd>>
    /\ UNCHANGED <<listing, content, cache, task, batch, calls, jsonParts, jsonTail, jsonOut>>

\* the remote script ends with a non-zero exit status
ScriptFail(id) ==
    /\ ctxs[id].pc = "script_wait"
    /\ ctxs' = [ctxs EXCEPT ![id] =
                  AfterRunScript(@, RunScriptReturn(1, "run_mc_command.sh", <<>>))]
    /\ UNCHANGED <<privilegedFile, scriptsRun>>
    /\ UNCHANGED <<render, usersOut, statsFiles, playersFile, cmd>>
    /\ UNCHANGED <<listing, content, cache, task, batch, calls, jsonParts, jsonTail, jsonOut>>

\* the body of grant_privileges or revoke_privileges has read the file
\* (app.py:527, app.py:549)
LoadUsers(id) ==
    /\ ctxs[id].pc = "body"
    /\ ctxs[id].command \in {"grant_privileges", "revoke_privileges"}
    /\ ctxs' = [ctxs EXCEPT ![id] = [@ EXCEPT !.pc = "loaded",
                   !.privileged_users = LoadPrivilegedUsers(privilegedFile)]]
    /\ UNCHANGED <<privilegedFile, scriptsRun>>
    /\ UNCHANGED <<render, usersOut, statsFiles, playersFile, cmd>>
    /\ UNCHANGED <<listing, content, cache, task, batch, calls, jsonParts, jsonTail, jsonOut>>

\* app.py:528-533 and app.py:550-555: the list is changed and saved, or not
SaveUsers(id) ==
    /\ ctxs[id].pc = "loaded"
    /\ LET users == ctxs[id].privileged_users
           username == ctxs[id].arg
           listed == \E n \in 1..Len(users) : users[n] = username
       IN IF ctxs[id].command = "grant_privileges"
          THEN IF ~listed
               THEN /\ privilegedFile' = SavedPrivilegedUsers(Append(users, username))
                    /\ ctxs' = [ctxs EXCEPT ![id] = [@ EXCEPT !.pc = "done",
                                   !.privileged_users = Append(users, username),
                                   !.reply = "Granted privileges to username."]]
               ELSE /\ privilegedFile' = privilegedFile
                    /\ ctxs' = [ctxs EXCEPT ![id] = [@ EXCEPT !.pc = "done",
                                   !.reply = "username already has privileges."]]
          ELSE IF listed
               THEN /\ privilegedFile' = SavedPrivilegedUsers(Remove(users, username))
                    /\ ctxs' = [ctxs EXCEPT ![id] = [@ EXCEPT !.pc = "done",
                                   !.privileged_users = Remove(users, username),
                                   !.reply = "Revoked privileges from username."]]
               ELSE /\ privilegedFile' = privilegedFile
                    /\ ctxs' = [ctxs EXCEPT ![id] = [@ EXCEPT !.pc = "done",
                                   !.reply = "username does not have privileges."]]
    /\ UNCHANGED scriptsRun
    /\ UNCHANGED <<render, usersOut, statsFiles, playersFile, cmd>>
    /\ UNCHANGED <<listing, content, cache, task, batch, calls, jsonParts, jsonTail, jsonOut>>

MaxInvocations == 2 \* commands that can be under way at the same time

CtxIds == 1..MaxInvocations

\* nobody has invoked a gated command; the file is as on_ready made it
\* (app.py:405-407)
PermIdle ==
    /\ privilegedFile = <<>>
    /\ ctxs = [id \in CtxIds |-> NoCtx]
    /\ scriptsRun = <<>>

\* nothing outside the log scanning and extract_json_objects has happened
RestIdle == RenderIdle /\ PlayersIdle /\ PermIdle

----------------------------------------------------------------------------
(* Specification of the last_joined command over every bounded log *)

RemoteInit(bodies, millisChoices) ==
    \E log \in BoundedSeq(bodies, MaxLines), millis \in millisChoices :
        \E sizes \in Cuts(Len(log)) :
            /\ listing = SubSeq(Paths, 1, Len(sizes))
            /\ content = RemoteContent(log, sizes, millis)

\* the log of the end-to-end scenario of the specification: one file, a
\* joined line and a left line of Alice, timestamps without milliseconds
ScenarioInit ==
    /\ listing = SubSeq(Paths, 1, 1)
    /\ content = RemoteContent(<<JoinedPattern(Alice), LeftPattern(Alice)>>, <<2>>, FALSE)

Init ==
    /\ RemoteInit(Bodies, {TRUE}) \/ ScenarioInit
    /\ cache = EmptyCache
    /\ task = [id \in TaskIds |-> Idle]
    /\ batch = [b \in BatchIds |-> IdleBatch]
    /\ calls = <<>>
    /\ JsonIdle
    /\ RestIdle

Next ==
    \/ \E b \in BatchIds, username \in Names : LastJoinedOne(b, username)
    \/ \E b \in BatchIds : LastJoinedAll(b)
    \/ \E b \in BatchIds : GetPlayersOk(b)
    \/ \E b \in BatchIds : GetPlayersFail(b)
    \/ \E b \in BatchIds : Finish(b)
    \/ \E id \in TaskIds : Start(id)
    \/ \E id \in TaskIds : ListOk(id)
    \/ \E id \in TaskIds : ListFail(id)
    \/ \E id \in TaskIds : ReadOk(id)
    \/ \E id \in TaskIds : ReadFail(id)

Spec == Init /\ [][Next]_vars

----------------------------------------------------------------------------
(* Specification of the last_joined command when every coroutine that can   *)
(* run is resumed and every dispatched remote command ends                  *)

LiveLines == 2 \* the lines of the logs of this specification

\* what these lines say: Alice joins and leaves, Bob is never seen
LiveBodies == {JoinedPattern(Alice), LeftPattern(Alice)}

InitLive ==
    /\ \E log \in BoundedSeq(LiveBodies, LiveLines) :
          \E sizes \in Cuts(Len(log)) :
             /\ listing = SubSeq(Paths, 1, Len(sizes))
             /\ content = RemoteContent(log, sizes, TRUE)
    /\ cache = EmptyCache
    /\ task = [id \in TaskIds |-> Idle]
    /\ batch = [b \in BatchIds |-> IdleBatch]
    /\ calls = <<>>
    /\ JsonIdle
    /\ RestIdle

\* asyncio resumes every coroutine that is ready (first run, or its remote
\* command has ended), and every remote command that was dispatched ends,
\* with one exit status or another
Fairness ==
    \A id \in TaskIds \ {DirectId} :
       /\ WF_vars(Start(id))
       /\ WF_vars(ListOk(id) \/ ListFail(id))
       /\ WF_vars(ReadOk(id) \/ ReadFail(id))

SpecLive == InitLive /\ [][Next]_vars /\ Fairness

----------------------------------------------------------------------------
(* Specification of search_string_in_logs called directly, with every       *)
(* bounded needle, k and max_search_lines                                   *)

SearchBodies == {JoinedPattern(Alice), LeftPattern(Alice)}
Needles == {JoinedPattern(Alice), TheGame}

\* search_string_in_logs(needle, k, max_search_lines, errors=[]) is called
CallSearch ==
    /\ task[DirectId].pc = "init"
    /\ calls = <<>>
    /\ Settle(DirectId, task[DirectId], cache)

\* the same call is made again
CallAgain ==
    /\ task[DirectId].pc = "init"
    /\ calls # <<>>
    /\ Len(calls) < MaxCalls
    /\ Settle(DirectId, task[DirectId], cache)

\* cache = {} between two calls, as app.py:701 and app.py:703 do
ResetCache ==
    /\ task[DirectId].pc = "init"
    /\ calls # <<>>
    /\ cache # EmptyCache
    /\ cache' = EmptyCache
    /\ UNCHANGED <<listing, content, task, batch, calls, nonLogVars>>

\* the direct caller is about to call with one of the given arguments
DirectInit(ks, maxs) ==
    /\ RemoteInit(SearchBodies, {TRUE})
    /\ cache = EmptyCache
    /\ \E needle \in Needles, k \in ks, max \in maxs :
          task = [id \in TaskIds |->
                    IF id = DirectId
                    THEN [NewTask("direct", 0, <<>>) EXCEPT
                            !.needle = needle, !.k = k, !.max = max]
                    ELSE Idle]
    /\ batch = [b \in BatchIds |-> IdleBatch]
    /\ calls = <<>>
    /\ JsonIdle
    /\ RestIdle

InitSearch == DirectInit({Unbounded} \cup 0..MaxK, {Unbounded} \cup 0..MaxBudget)

NextSearch ==
    \/ CallSearch
    \/ ListOk(DirectId)
    \/ ListFail(DirectId)
    \/ ReadOk(DirectId)
    \/ ReadFail(DirectId)

SpecSearch == InitSearch /\ [][NextSearch]_vars

----------------------------------------------------------------------------
(* Specification of search_string_in_logs called repeatedly with the same   *)
(* arguments and an unbounded line budget, the cache kept or reset between  *)
(* two calls                                                                *)

InitRepeat == DirectInit({Unbounded} \cup 0..MaxK, {Unbounded})

NextRepeat ==
    \/ CallSearch
    \/ CallAgain
    \/ ResetCache
    \/ ListOk(DirectId)
    \/ ListFail(DirectId)
    \/ ReadOk(DirectId)
    \/ ReadFail(DirectId)

SpecRepeat == InitRepeat /\ [][NextRepeat]_vars

----------------------------------------------------------------------------
(* Specification of extract_json_objects applied to concatenated objects *)

MaxObjects == 3     \* objects concatenated in one input

JsonKey == <<"\"","k","\"",":">>

\* the texts a JSON string literal may hold between its quotes
JsonStringBodies == { <<>>, <<"a">>, <<"{">>, <<"}">> }

\* well-formed JSON objects that hold no nested object: {} and {"k":"..."}
JsonObjects ==
    { <<"{","}">> } \cup
    { <<"{">> \o JsonKey \o <<"\"">> \o body \o <<"\"","}">> : body \in JsonStringBodies }

\* nothing, or an object whose opening brace is never closed
JsonTails ==
    { <<>>, <<"{">> } \cup
    { <<"{">> \o JsonKey \o <<"\"">> \o body \o <<"\"">> : body \in {<<"a">>, <<"}">>} }

\* the input text
JsonText == Concat(jsonParts) \o jsonTail

InitJson ==
    /\ listing = <<>>
    /\ content = EmptyCache
    /\ cache = EmptyCache
    /\ task = [id \in TaskIds |-> Idle]
    /\ batch = [b \in BatchIds |-> IdleBatch]
    /\ calls = <<>>
    /\ jsonParts \in BoundedSeq(JsonObjects, MaxObjects)
    /\ jsonTail \in JsonTails
    /\ jsonOut = [done |-> FALSE, spans |-> <<>>]
    /\ RestIdle

\* json_objects = extract_json_objects(stdout)  (app.py:177)
ExtractJson ==
    /\ ~jsonOut.done
    /\ jsonOut' = [done |-> TRUE, spans |-> ExtractJsonObjects(JsonText)]
    /\ UNCHANGED <<listing, content, cache, task, batch, calls, jsonParts, jsonTail, restVars>>

NextJson == ExtractJson

SpecJson == InitJson /\ [][NextJson]_vars

----------------------------------------------------------------------------
(* Specification of extract_json_objects applied to any text of braces and  *)
(* other characters                                                         *)

MaxText == 5        \* characters of an arbitrary input text

BraceAlphabet == {"{", "}", "a"}

InitBraces ==
    /\ listing = <<>>
    /\ content = EmptyCache
    /\ cache = EmptyCache
    /\ task = [id \in TaskIds |-> Idle]
    /\ batch = [b \in BatchIds |-> IdleBatch]
    /\ calls = <<>>
    /\ jsonParts = <<>>
    /\ jsonTail \in BoundedSeq(BraceAlphabet, MaxText)
    /\ jsonOut = [done |-> FALSE, spans |-> <<>>]
    /\ RestIdle

SpecBraces == InitBraces /\ [][NextJson]_vars

----------------------------------------------------------------------------
(* Specification of build_errors_string applied to bounded errors lists *)

MaxDepth == 3       \* nesting depth of the errors lists rendered

\* the function names, messages and text details of the nodes, by depth
NodeOrigins == << <<"A">>, <<"B">>, <<"C">>, <<"D">>, <<"E">> >>
NodeMessages == << <<"m","1">>, <<"m","2">>, <<"m","3">>, <<"m","4">>, <<"m","5">> >>
NodeDetails == << <<"d","1">>, <<"d","2">>, <<"d","3">>, <<"d","4">>, <<"d","5">> >>

\* a node with a text detail at nesting depth d (the root list is depth 0);
\* the detail may be the empty string
TextNodes(d) ==
    {Leaf(NodeOrigins[d + 1], NodeMessages[d + 1], text) :
        text \in {<<>>, NodeDetails[d + 1]}}

RECURSIVE ErrorLists(_, _)
\* errors lists at depth d that nest at most more levels deeper: one text
\* node, or one node with a list detail, alone or next to a text node
ErrorLists(d, more) ==
    LET texts == {<<node>> : node \in TextNodes(d)}
        lists == {<<Wrap(NodeOrigins[d + 1], NodeMessages[d + 1], children)>> :
                     children \in {<<>>} \cup ErrorLists(d + 1, more - 1)}
    IN IF more = 0 THEN texts
       ELSE texts \cup lists
            \cup {t \o l : t \in texts, l \in lists}
            \cup {l \o t : t \in texts, l \in lists}

InitRender ==
    /\ listing = <<>>
    /\ content = EmptyCache
    /\ cache = EmptyCache
    /\ task = [id \in TaskIds |-> Idle]
    /\ batch = [b \in BatchIds |-> IdleBatch]
    /\ calls = <<>>
    /\ JsonIdle
    /\ \E errors \in ErrorLists(0, MaxDepth - 1) :
          render = [done |-> FALSE, errors |-> errors, out |-> <<>>]
    /\ PlayersIdle
    /\ PermIdle

\* logging.error(build_errors_string(errors))  (app.py:126)
LogErrors ==
    /\ ~render.done
    /\ render' = [render EXCEPT !.done = TRUE,
                     !.out = BuildErrorsString(render.errors, 0)]
    /\ UNCHANGED <<listing, content, cache, task, batch, calls, jsonParts, jsonTail, jsonOut>>
    /\ UNCHANGED <<usersOut, statsFiles, playersFile, cmd, permVars>>

NextRender == LogErrors

SpecRender == InitRender /\ [][NextRender]_vars

----------------------------------------------------------------------------
(* Specification of the daily update and of the list_players and playtime   *)
(* commands, one at a time, over every combination of the remote outputs    *)

\* the texts a statistics file can hold
StatsTexts ==
    { StatsText(<<"2", "4", "1", "9">>), StatsText(<<"7", "2", "0", "0", "0">>),
      StatsNoCustom, StatsUnquoted, StatsTruncated, <<>> }

\* the record data/players.json keeps for a player, with a field the
\* refresh does not know
AnnotatedRecord ==
    [field \in {"username", "playtime", "note"} |->
        IF field = "username" THEN <<"A", "l", "i">>
        ELSE IF field = "playtime" THEN 60
        ELSE <<"v", "i", "p">>]

PlayersFiles ==
    { [last_updated |-> "2024-01-03 00:00:00", players |-> NoPlayers],
      [last_updated |-> "2024-01-03 00:00:00",
       players |-> [uuid \in {"uuid-1"} |-> AnnotatedRecord]] }

\* a username nobody on the server has
Zed == <<"Z", "e", "d">>

InitPlayers ==
    /\ listing = <<>>
    /\ content = EmptyCache
    /\ cache = EmptyCache
    /\ task = [id \in TaskIds |-> Idle]
    /\ batch = [b \in BatchIds |-> IdleBatch]
    /\ calls = <<>>
    /\ JsonIdle
    /\ RenderIdle
    /\ usersOut \in {UsersText, UsersEmpty, UsersTruncated}
    /\ statsFiles \in [{UsernameCache[n].uuid : n \in 1..Len(UsernameCache)} -> StatsTexts]
    /\ playersFile \in PlayersFiles
    /\ cmd = NoCommand(playersFile)
    /\ PermIdle

NextPlayers ==
    \/ DailyUpdate
    \/ ListPlayers
    \/ \E tgt_username \in {None, Alice, Zed} : Playtime(tgt_username)
    \/ FetchPlayersOk
    \/ FetchPlayersFail
    \/ FetchStatsOk
    \/ FetchStatsFail

SpecPlayers == InitPlayers /\ [][NextPlayers]_vars

----------------------------------------------------------------------------
(* Specification of the same commands over statistics files that hold no,   *)
(* one or two JSON objects each                                             *)

\* a statistics file that holds two objects
StatsDouble == StatsNoCustom \o StatsText(<<"2", "4", "1", "9">>)

\* files made of whole JSON objects
WholeFiles ==
    { <<>>, StatsNoCustom, StatsText(<<"2", "4", "1", "9">>),
      StatsText(<<"7", "2", "0", "0", "0">>), StatsDouble }

InitStats ==
    /\ listing = <<>>
    /\ content = EmptyCache
    /\ cache = EmptyCache
    /\ task = [id \in TaskIds |-> Idle]
    /\ batch = [b \in BatchIds |-> IdleBatch]
    /\ calls = <<>>
    /\ JsonIdle
    /\ RenderIdle
    /\ usersOut = UsersText
    /\ statsFiles \in [{UsernameCache[n].uuid : n \in 1..Len(UsernameCache)} ->
                          WholeFiles \cup {StatsTruncated}]
    /\ playersFile \in PlayersFiles
    /\ cmd = NoCommand(playersFile)
    /\ PermIdle

SpecStats == InitStats /\ [][NextPlayers]_vars

----------------------------------------------------------------------------
(* Specification of the permission-gated commands invoked by every author,  *)
(* with invocations under way at the same time                              *)

\* the files the bot itself can have written: the empty file of on_ready
\* and what grants have made of it
PrivilegedFiles ==
    {SavedPrivilegedUsers(users) : users \in {<< <<>> >>, << <<>>, Ben >>, << <<>>, Cy, Ben >>}}

\* the argument of invocations: a username, a server command or a message
Usernames == {Ben, Cy}
CommandArg == <<"s", "t", "o", "p">>
Message == <<"h", "i">>

InitPerm ==
    /\ listing = <<>>
    /\ content = <<>>
    /\ cache = <<>>
    /\ task = <<>>
    /\ batch = <<>>
    /\ calls = 0
    /\ JsonIdle
    /\ RenderIdle
    /\ PlayersIdle
    /\ privilegedFile \in PrivilegedFiles
    /\ ctxs = [id \in CtxIds |-> NoCtx]
    /\ scriptsRun = <<>>

NextPerm ==
    \/ \E id \in CtxIds, author \in Authors :
          \/ \E username \in Usernames :
                \/ Invoke(id, "grant_privileges", author, username)
                \/ Invoke(id, "revoke_privileges", author, username)
          \/ Invoke(id, "command", author, CommandArg)
          \/ Invoke(id, "say", author, Message)
    \/ \E id \in CtxIds : CheckLoad(id)
    \/ \E id \in CtxIds : CheckOwner(id)
    \/ \E id \in CtxIds : RunCommand(id)
    \/ \E id \in CtxIds : ScriptOk(id)
    \/ \E id \in CtxIds : ScriptFail(id)
    \/ \E id \in CtxIds : LoadUsers(id)
    \/ \E id \in CtxIds : SaveUsers(id)

SpecPerm == InitPerm /\ [][NextPerm]_vars

----------------------------------------------------------------------------
(* Specification of two last_joined commands under way at the same time,    *)
(* over the log of the end-to-end scenario                                  *)

\* two invocations of last_joined and the coroutines they gather
OverlapIds == {1, 2}
OverlapTaskIds == OverlapIds \X (1..Len(UsernameCache))

InitOverlap ==
    /\ ScenarioInit
    /\ cache = EmptyCache
    /\ task = [id \in OverlapTaskIds |-> Idle]
    /\ batch = [b \in OverlapIds |-> IdleBatch]
    /\ calls = <<>>
    /\ JsonIdle
    /\ RestIdle

NextOverlap ==
    \/ \E b \in OverlapIds, username \in Names : LastJoinedOne(b, username)
    \/ \E b \in OverlapIds : LastJoinedAll(b)
    \/ \E b \in OverlapIds : GetPlayersOk(b)
    \/ \E b \in OverlapIds : GetPlayersFail(b)
    \/ \E b \in OverlapIds : Finish(b)
    \/ \E id \in OverlapTaskIds : Start(id)
    \/ \E id \in OverlapTaskIds : ListOk(id)
    \/ \E id \in OverlapTaskIds : ListFail(id)
    \/ \E id \in OverlapTaskIds : ReadOk(id)
    \/ \E id \in OverlapTaskIds : ReadFail(id)

SpecOverlap == InitOverlap /\ [][NextOverlap]_vars

----------------------------------------------------------------------------
(* What the remote log says, read off the file texts without the code's    *)
(* own split and scan                                                      *)

\* the j-th smallest member of a set of positions
Nth(ps, j) == CHOOSE i \in ps : Cardinality({h \in ps : h < i}) = j - 1

\* the pieces of text between the positions nl
Between(text, nl) ==
    [j \in 1..(Cardinality(nl) + 1) |->
        SubSeq(text,
               IF j = 1 THEN 1 ELSE Nth(nl, j - 1) + 1,
               IF j = Cardinality(nl) + 1 THEN Len(text) ELSE Nth(nl, j) - 1)]

\* the lines of text: what stands before, between and after its newlines
LinesOf(text) == Between(text, {i \in 1..Len(text) : text[i] = "\n"})

\* the lines of every listed file, newest file first, first line written first
LogLines == [f \in 1..Len(listing) |-> LinesOf(content[listing[f]])]

\* line j of the f-th newest file
LineAt(L, fj) == L[fj[1]][fj[2]]

Places(L) == UNION {{<<f, j>> : j \in 1..Len(L[f])} : f \in 1..Len(L)}

\* fj is more recent than gh: a newer file, or the same file further down
MoreRecent(fj, gh) == fj[1] < gh[1] \/ (fj[1] = gh[1] /\ fj[2] > gh[2])

\* the number of lines a most-recent-first scan has read when it reads fj
Rank(L, fj) == Cardinality({gh \in Places(L) : MoreRecent(gh, fj)}) + 1

\* the places of the lines that contain pattern
PlacesOf(L, pattern) == {fj \in Places(L) : Contains(pattern, LineAt(L, fj))}

\* the most recent place among a non-empty set of places
MostRecent(S) == CHOOSE fj \in S : \A gh \in S : gh = fj \/ MoreRecent(fj, gh)

\* the text between the leading "[" and the first "]" of a line
BracketText(line) ==
    LET close == CHOOSE i \in 1..Len(line) :
                    line[i] = "]" /\ \A h \in 1..(i - 1) : line[h] # "]"
    IN SubSeq(line, 2, close - 1)

\* the bracketed text without its last four characters
TimestampOf(line) ==
    LET b == BracketText(line) IN SubSeq(b, 1, Len(b) - 4)

Sentinels == {NoData, StillPlaying, ErrorText, <<>>}

\* the last_time_joined coroutines that have returned
DoneLookups == {id \in TaskIds : task[id].caller = "last_time_joined" /\ task[id].pc = "done"}

----------------------------------------------------------------------------
(* Claims *)

\* C1: whenever last_time_joined returns a real left timestamp, the line it
\* was taken from lies within the first joined_line_count lines of the
\* most-recent-first scan and is not older than the most recent
\* "<name> joined the game" line.
C1_LeftWithinJoinedBudget ==
    \A id \in DoneLookups :
        task[id].result[2] \notin Sentinels =>
            \A L \in {LogLines} :
            \A joins \in {PlacesOf(L, JoinedPattern(task[id].username))} :
            /\ task[id].left_lines # <<>>
            /\ joins # {}
            /\ \E fj \in PlacesOf(L, LeftPattern(task[id].username)) :
                  /\ LineAt(L, fj) = task[id].left_lines[1]
                  /\ task[id].result[2] = TimestampOf(LineAt(L, fj))
                  /\ Rank(L, fj) <= task[id].joined_line_count
                  /\ Rank(L, fj) <= Rank(L, MostRecent(joins))

\* C1 witness: a left timestamp is returned although the log also holds a
\* left line of an earlier session, older than the most recent join.
C1_Witness ==
    \E id \in DoneLookups :
        /\ task[id].result[2] \notin Sentinels
        /\ \E L \in {LogLines} :
           \E fj \in PlacesOf(L, LeftPattern(task[id].username)) :
              MoreRecent(MostRecent(PlacesOf(L, JoinedPattern(task[id].username))), fj)

\* the log of the end-to-end scenario: one file, two lines
C2_Scenario ==
    /\ listing = <<"logs/latest.log">>
    /\ content["logs/latest.log"] =
          <<"[","0","1","J","a","n","2","0","2","4"," ","1","0",":","0","0",":","0","0","]"," ">>
          \o JoinedPattern(Alice) \o <<"\n">> \o
          <<"[","0","1","J","a","n","2","0","2","4"," ","1","1",":","3","0",":","0","0","]"," ">>
          \o LeftPattern(Alice) \o <<"\n">>

\* C2 as claimed: in the scenario lastSession("Alice") returns
\* ("01Jan2024 10:00:00", "01Jan2024 11:30:00").
C2_Original ==
    \A id \in DoneLookups :
        (C2_Scenario /\ task[id].username = Alice /\ task[id].failures = 0) =>
            task[id].result =
              << <<"0","1","J","a","n","2","0","2","4"," ","1","0",":","0","0",":","0","0">>,
                 <<"0","1","J","a","n","2","0","2","4"," ","1","1",":","3","0",":","0","0">> >>

\* C2 amended: in the scenario the lookup returns ("01Jan2024 10:0",
\* "01Jan2024 11:3"); for every log the timestamp extracted from a matched
\* line is the text between the leading "[" and the first "]" without its
\* last four characters.
C2_TimestampDropsFourChars ==
    \A id \in DoneLookups :
        /\ (C2_Scenario /\ task[id].username = Alice /\ task[id].failures = 0) =>
              task[id].result =
                << <<"0","1","J","a","n","2","0","2","4"," ","1","0",":","0">>,
                   <<"0","1","J","a","n","2","0","2","4"," ","1","1",":","3">> >>
        /\ task[id].joined_lines # <<>> /\ task[id].result # <<>> =>
              task[id].result[1] = TimestampOf(task[id].joined_lines[1])
        /\ task[id].left_lines # <<>> =>
              task[id].result[2] = TimestampOf(task[id].left_lines[1])

\* C2 witness: the lookup of Alice has returned in the scenario, with no
\* remote failure.
C2_Witness ==
    \E id \in DoneLookups :
        C2_Scenario /\ task[id].username = Alice /\ task[id].failures = 0

\* C3 as claimed: when every remote call succeeds and a queried name has no
\* joined line, no error is recorded and last_joined does not answer with
\* the failure message.
C3_NotFoundIsNoFault ==
    \A b \in BatchIds :
        ( /\ batch[b].pc = "done"
          /\ batch[b].usernames # <<>>
          /\ \A n \in 1..Len(batch[b].usernames) : task[<<b, n>>].failures = 0
          /\ \E L \in {LogLines} :
             \E n \in 1..Len(batch[b].usernames) :
                PlacesOf(L, JoinedPattern(batch[b].usernames[n])) = {} )
        => /\ batch[b].errors = <<>>
           /\ batch[b].response.kind # "failure"

\* C4: a joined line exists, no left line lies within the joined_line_count
\* most recent lines and no remote call fails: last_time_joined returns
\* (joined timestamp, "Still playing").
C4_StillPlaying ==
    \A id \in DoneLookups :
        task[id].failures = 0 =>
            \A L \in {LogLines} :
            \A joins \in {PlacesOf(L, JoinedPattern(task[id].username))} :
                joins # {} =>
                    \A last \in {MostRecent(joins)} :
                        (\A fj \in PlacesOf(L, LeftPattern(task[id].username)) :
                            Rank(L, fj) > Rank(L, last))
                        => task[id].result =
                              <<TimestampOf(LineAt(L, last)), StillPlaying>>

\* C4 witness: "Still playing" is returned although an older left line
\* exists beyond the budget.
C4_Witness ==
    \E id \in DoneLookups :
        /\ task[id].failures = 0
        /\ task[id].result # <<>>
        /\ task[id].result[2] = StillPlaying
        /\ PlacesOf(LogLines, LeftPattern(task[id].username)) # {}

\* C5: no joined line exists in any listed file and no remote call fails:
\* last_time_joined returns ("No data", "No data") and has made no search
\* for the left pattern.
C5_NoData ==
    \A id \in DoneLookups :
        (task[id].failures = 0
         /\ PlacesOf(LogLines, JoinedPattern(task[id].username)) = {})
        => /\ task[id].result = <<NoData, NoData>>
           /\ Len(task[id].searches) = 1
           /\ \A n \in 1..Len(task[id].searches) :
                 task[id].searches[n].phase = "joined"

\* C5 witness: the no-data pair is returned for a name that has a left line
\* but no joined line in the log.
C5_Witness ==
    \E id \in DoneLookups :
        /\ task[id].failures = 0
        /\ \E L \in {LogLines} :
              /\ PlacesOf(L, JoinedPattern(task[id].username)) = {}
              /\ PlacesOf(L, LeftPattern(task[id].username)) # {}

\* the needle, k and max_search_lines of the direct calls
DirectNeedle == task[DirectId].needle
DirectK == task[DirectId].k
DirectMax == task[DirectId].max

\* the place a returned line comes from (log lines are pairwise distinct)
Origin(L, line) == CHOOSE fj \in Places(L) : LineAt(L, fj) = line

\* C6: with a finite k the result holds at most k lines, and with a finite
\* max_search_lines at most that many lines were scanned.
C6_LimitsRespected ==
    \A n \in 1..Len(calls) :
        /\ DirectK # Unbounded => Len(calls[n].matched) <= DirectK
        /\ DirectMax # Unbounded => calls[n].count <= DirectMax

\* C6 witness: a call stopped by both limits at once, with matching lines
\* and unscanned lines left over in the log.
C6_Witness ==
    \E n \in 1..Len(calls) :
        /\ calls[n].errors = <<>>
        /\ DirectK > 0 /\ Len(calls[n].matched) = DirectK
        /\ DirectMax > 0 /\ calls[n].count = DirectMax
        /\ \E L \in {LogLines} :
              /\ Cardinality(PlacesOf(L, DirectNeedle)) > DirectK
              /\ Cardinality(Places(L)) > DirectMax

\* C7: the returned lines are in most-recent-first order over the whole
\* file set (an earlier file of the listing first, within a file the later
\* line first), and every returned line contains the needle.
C7_MostRecentFirst ==
    \A n \in 1..Len(calls) :
        calls[n].matched # <<>> =>
            \A L \in {LogLines} :
            \A m \in {calls[n].matched} :
            /\ \A a \in 1..Len(m) :
                  /\ Contains(DirectNeedle, m[a])
                  /\ \E fj \in Places(L) : LineAt(L, fj) = m[a]
            /\ \A a \in 1..Len(m), b \in 1..Len(m) :
                  a < b => MoreRecent(Origin(L, m[a]), Origin(L, m[b]))

\* C7 witness: a call returned two lines of one file and a line of an
\* older file.
C7_Witness ==
    \E n \in 1..Len(calls) :
        /\ Len(calls[n].matched) >= 3
        /\ \E L \in {LogLines} :
              /\ Origin(L, calls[n].matched[1])[1] = Origin(L, calls[n].matched[2])[1]
              /\ Origin(L, calls[n].matched[2])[1] # Origin(L, calls[n].matched[3])[1]

\* C8: when the listing fails, or the read of a file the scan reaches
\* fails, search_string_in_logs dispatches nothing more and returns
\* ([], -1), with exactly one node appended to the caller's errors list,
\* which wraps the one node of the failed call.
C8_FailureAborts ==
    [][ (ListFail(DirectId) \/ ReadFail(DirectId)) =>
          /\ Len(calls') = Len(calls) + 1
          /\ task'[DirectId].remote = task[DirectId].remote
          /\ LET r == calls'[Len(calls')] IN
             /\ r.matched = <<>>
             /\ r.count = -1
             /\ Len(r.errors) = 1
             /\ r.errors[1].origin = "search_string_in_logs"
             /\ ~r.errors[1].isText
             /\ Len(r.errors[1].children) = 1
             /\ r.errors[1].children[1].isText
             /\ r.errors[1].children[1].origin =
                   (IF task[DirectId].pc = "list_wait"
                    THEN "list_log_files" ELSE "read_log_file") ]_vars

\* C8 witness: the first call has failed on an older file after the newest
\* file, which holds a matching line, had been read and cached.
C8_Witness ==
    /\ Len(calls) = 1
    /\ calls[1].errors # <<>>
    /\ calls[1].matched = <<>>
    /\ listing # <<>> /\ listing[1] \in DOMAIN cache
    /\ \E fj \in PlacesOf(LogLines, DirectNeedle) : fj[1] = 1

Braces(text) == Cardinality({i \in 1..Len(text) : text[i] \in {"{", "}"}})

\* C10 as claimed: for an input made of N well-formed objects without
\* nested objects, followed by nothing or by an object that is never
\* closed, extract_json_objects returns exactly the N object texts in
\* order.
C10_Original ==
    jsonOut.done => jsonOut.spans = jsonParts

\* C10 amended: the same, for objects (and an unclosed trailing object)
\* whose string literals hold no brace.
C10_SpansAreObjects ==
    ( /\ jsonOut.done
      /\ \A n \in 1..Len(jsonParts) : Braces(jsonParts[n]) = 2
      /\ Braces(jsonTail) <= 1 )
    => jsonOut.spans = jsonParts

\* C10 witness: two or more objects followed by an unclosed object.
C10_Witness ==
    /\ jsonOut.done
    /\ Len(jsonParts) >= 2
    /\ \A n \in 1..Len(jsonParts) : Braces(jsonParts[n]) = 2
    /\ Braces(jsonTail) = 1
    /\ Len(jsonTail) > 1

\* the scanner's nesting depth after the first i characters of text: the
\* opening braces minus the closing braces among them
DepthAfter(text, i) ==
    Cardinality({h \in 1..i : text[h] = "{"}) - Cardinality({h \in 1..i : text[h] = "}"})

\* text[a..b] is a balanced brace-delimited object of text
BalancedAt(text, a, b) ==
    /\ text[a] = "{" /\ DepthAfter(text, a - 1) = 0
    /\ text[b] = "}" /\ DepthAfter(text, b) = 0
    /\ \A i \in a..(b - 1) : DepthAfter(text, i) >= 1

\* C11: for every input text, every span extract_json_objects returns is
\* the text between an opening brace at which the depth goes from 0 to 1
\* and the closing brace at which it returns to 0, the depth staying above
\* 0 in between; the spans lie in the text in the order returned.
C11_SpansBalanced ==
    jsonOut.done =>
        \E ends \in [1..Len(jsonOut.spans) -> (1..Len(JsonText)) \X (1..Len(JsonText))] :
            /\ \A n \in 1..Len(jsonOut.spans) :
                  /\ ends[n][1] < ends[n][2]
                  /\ SubSeq(JsonText, ends[n][1], ends[n][2]) = jsonOut.spans[n]
                  /\ BalancedAt(JsonText, ends[n][1], ends[n][2])
            /\ \A n \in 1..(Len(jsonOut.spans) - 1) : ends[n][2] < ends[n + 1][1]

\* C11 witness: a span was returned for a text that starts with an
\* unmatched closing brace.
C11_Witness ==
    /\ jsonOut.done
    /\ jsonParts = <<>>
    /\ jsonOut.spans # <<>>
    /\ jsonTail[1] = "}"

\* the rendering the specification describes: the node's line at its own
\* indent level, a text detail (when not empty) or the child nodes one
\* level deeper
RECURSIVE ClaimedRendering(_, _)
ClaimedRendering(errors, level) ==
    IF errors = <<>> THEN <<>>
    ELSE LET node == errors[1]
             tabs == [i \in 1..level |-> "\t"]
         IN tabs \o node.origin \o <<":", " ", "\"">> \o node.message \o <<"\"", "\n">>
            \o (IF ~node.isText THEN ClaimedRendering(node.children, level + 1)
                ELSE IF node.text = <<>> THEN <<>>
                ELSE tabs \o <<"\t">> \o node.text \o <<"\n">>)
            \o ClaimedRendering(SubSeq(errors, 2, Len(errors)), level)

\* C12 as claimed: build_errors_string renders every node as one line at
\* its own indent level and a text detail, or the child nodes, one level
\* deeper; the root (A, m1, [(B, m2, d2)]) gives the lines 'A: "m1"',
\* tab 'B: "m2"', tab tab 'd2'.
C12_DetailOneLevelDeeper ==
    render.done =>
        /\ render.out = ClaimedRendering(render.errors, 0)
        /\ render.errors = <<Wrap(<<"A">>, <<"m","1">>, <<Leaf(<<"B">>, <<"m","2">>, <<"d","2">>)>>)>>
           => render.out =
                <<"A", ":", " ", "\"", "m", "1", "\"", "\n",
                  "\t", "B", ":", " ", "\"", "m", "2", "\"", "\n",
                  "\t", "\t", "d", "2", "\n">>

\* the daily update has run to its end
UpdateDone == cmd.name = "update_players_data" /\ cmd.pc = "done"

\* the last remote operation that returned to the running command
LastOp == cmd.ops[Len(cmd.ops)]

\* C13 as claimed: after update_players_data has run with both fetches
\* succeeding, data/players.json has been written and holds for every
\* fetched uuid a record with the fetched username, the fetched play_time
\* divided by 20, and every other field the record had before.
C13_RefreshPersisted ==
    (UpdateDone /\ cmd.errors = <<>>) =>
        /\ playersFile.last_updated = Now
        /\ \A n \in 1..Len(cmd.ops[1].value) :
              \E uuid \in {cmd.ops[1].value[n].uuid} :
                 /\ uuid \in DOMAIN playersFile.players
                 /\ playersFile.players[uuid]["username"] = cmd.ops[1].value[n].username
                 /\ \A m \in 1..Len(cmd.ops[2].value) :
                       cmd.ops[2].value[m].uuid = uuid =>
                          playersFile.players[uuid]["playtime"] =
                             (IF cmd.ops[2].value[m].stats.hasPlayTime
                              THEN cmd.ops[2].value[m].stats.play_time ELSE 0) \div 20
                 /\ uuid \in DOMAIN cmd.fileBefore.players =>
                       \A field \in DOMAIN cmd.fileBefore.players[uuid] \ {"username", "playtime"} :
                          /\ field \in DOMAIN playersFile.players[uuid]
                          /\ playersFile.players[uuid][field] =
                                cmd.fileBefore.players[uuid][field]

\* C14: when get_players or get_player_stats yields an empty result during
\* update_players_data, the refresh appends exactly one node to the
\* caller's errors list, a node of update_players_data that wraps the
\* errors of the failed fetch, and data/players.json is as it was before
\* the call, last_updated included.
C14_FailedRefreshLeavesFile ==
    (UpdateDone /\ LastOp.value = <<>>) =>
        /\ Len(cmd.errors) = 1
        /\ cmd.errors[1].origin = "update_players_data"
        /\ ~cmd.errors[1].isText
        /\ cmd.errors[1].children = LastOp.errors
        /\ playersFile = cmd.fileBefore
        /\ playersFile.last_updated # Now

\* C14 witness: the refresh has given up after get_player_stats failed,
\* with a record on file, and the refresh in memory already carries the
\* new last_updated.
C14_Witness ==
    /\ UpdateDone
    /\ Len(cmd.ops) = 2
    /\ LastOp.value = <<>>
    /\ LastOp.exit # 0
    /\ playersFile.players # NoPlayers
    /\ cmd.players_data.last_updated = Now

\* C15 as claimed: a command that got an empty mapping from get_players
\* makes no further remote call and ends as a failure: update_players_data
\* records an error, list_players and playtime answer with a failure
\* message, and none answers as if the server had no players.
C15_EmptyMappingAborts ==
    (cmd.pc = "done" /\ cmd.ops[1].op = "get_players" /\ cmd.ops[1].value = <<>>) =>
        /\ Len(cmd.ops) = 1
        /\ cmd.name = "update_players_data" => cmd.errors # <<>>
        /\ cmd.name \in {"list_players", "playtime"} =>
              /\ cmd.reply.kind = "failure"
              /\ cmd.logged # <<>>

----------------------------------------------------------------------------
(* C16: permission gating *)

\* the body of the command of invocation c is running or has run
BodyEntered(c) ==
    \/ c.pc \in {"body", "script_wait", "loaded"}
    \/ c.pc = "done" /\ c.reply # "You do not have permission to use this command."

\* what the claim allows: the owner, and for say also an author who stood
\* in the list when the check read it
Permitted(c) ==
    \/ c.author = Ada
    \/ /\ c.command = "say"
       /\ c.pc \notin {"none", "load_wait"}
       /\ \E L \in {LinesOf(c.fileAtCheck)} : \E n \in 1..Len(L) : L[n] = c.author

\* C16: whenever an invocation takes a step, its body is running only if
\* its author is the owner (or, for say, the owner or an author listed as
\* privileged when the check read the list), and a step of an invocation
\* of any other author starts no remote script and leaves the
\* privileged-user list as it was.
C16_PermissionGating ==
    [][\A id \in CtxIds :
          ctxs'[id] # ctxs[id] =>
             /\ BodyEntered(ctxs'[id]) => Permitted(ctxs'[id])
             /\ ~Permitted(ctxs'[id]) =>
                   /\ scriptsRun' = scriptsRun
                   /\ privilegedFile' = privilegedFile]_vars

\* C16 witness: a say of a listed author who is not the owner has run its
\* script while a command of an author who is neither has been refused.
C16_Witness ==
    \E id, other \in CtxIds :
       /\ ctxs[id].command = "say" /\ ctxs[id].author = Ben
       /\ ctxs[id].pc = "done" /\ ctxs[id].reply = "reaction: check mark"
       /\ \E n \in 1..Len(scriptsRun) : scriptsRun[n].id = id
       /\ ctxs[other].command \in OwnerCommands /\ ctxs[other].author # Ada
       /\ ctxs[other].pc = "done"
       /\ ctxs[other].reply = "You do not have permission to use this command."

----------------------------------------------------------------------------
(* C17: cache scoping when last_joined commands overlap *)

\* the keys whose remote call a lookup of command b has dispatched
DispatchedBy(b) ==
    UNION {{task[id].remote[n] : n \in 1..Len(task[id].remote)} :
              id \in {x \in DOMAIN task : x[1] = b}}

\* C17 as claimed: a lookup of one last_joined command never reads a cache
\* entry (file text or file listing) produced by a remote call that a
\* different command dispatched; so every entry a lookup has read was
\* fetched by a remote call of a lookup of its own command.
C17_NoForeignCacheEntry ==
    \A id \in DOMAIN task :
       \A n \in 1..Len(task[id].hits) : task[id].hits[n] \in DispatchedBy(id[1])

----------------------------------------------------------------------------
(* C18: a failed remote command is reported and yields the default value *)

\* the output of an operation that ended with exit status 0 is no JSON:
\* the username cache is not one JSON text, the statistics output is not a
\* run of JSON objects
Malformed(o) ==
    IF o.op = "get_players" THEN ~UsersIsJson(o.stdout)
    ELSE \E spans \in {ExtractJsonObjects(o.stdout)} :
            \/ Concat(spans) # o.stdout
            \/ \E n \in 1..Len(spans) : ~StatsIsJson(spans[n])

\* C18 as claimed, for get_players and get_player_stats: an operation
\* whose remote command exited with a non-zero status, or printed
\* malformed JSON, has returned its empty value and has appended exactly
\* one node to the errors list it was given, a node of its own name with a
\* text detail, which carries the remote stderr after a non-zero exit.
C18_FailureReportedOnce ==
    \A n \in 1..Len(cmd.ops) :
       \A o \in {cmd.ops[n]} :
          (o.exit # 0 \/ Malformed(o)) =>
             /\ o.value = <<>>
             /\ Len(o.errors) = 1
             /\ o.errors[1].origin = o.op
             /\ o.errors[1].isText
             /\ o.exit # 0 => \E i \in 1..Len(o.errors[1].text) : o.errors[1].text[i] = Stderr

----------------------------------------------------------------------------
(* C19: a node with a list detail has a child *)

RECURSIVE Nodes(_)
\* the nodes of an errors list, with the nodes below them
Nodes(errors) ==
    UNION {{errors[n]} \cup (IF errors[n].isText THEN {} ELSE Nodes(errors[n].children)) :
              n \in 1..Len(errors)}

\* C19 as claimed, for the daily update and the list_players and playtime
\* commands: every node with a list detail, among the nodes the command
\* has collected or logged, has at least one child node.
C19_WrappersHaveChildren ==
    \A node \in Nodes(cmd.errors) \cup
                UNION {Nodes(cmd.logged[n]) : n \in 1..Len(cmd.logged)} :
       ~node.isText => node.children # <<>>

----------------------------------------------------------------------------
(* C20: the error states of last_time_joined *)

\* the node last_time_joined appends when a search has reported an error
IsSearchWrap(node, message) ==
    /\ node.origin = "last_time_joined"
    /\ node.message = message
    /\ ~node.isText
    /\ Len(node.children) = 1
    /\ node.children[1].origin = "search_string_in_logs"

\* a gathered lookup ends in this step because a remote call of its
\* search has failed
FailsNow(id) ==
    /\ task[id].caller = "last_time_joined"
    /\ task[id].pc # "done"
    /\ task'[id].pc = "done"
    /\ task'[id].failures > task[id].failures

\* a lookup of command b has returned one of the two error pairs
HasErrorPair(b) ==
    \E id \in DOMAIN task :
       /\ id[1] = b /\ id[2] <= Len(batch[b].usernames)
       /\ task[id].pc = "done"
       /\ \/ task[id].result = << <<>>, <<>> >>
          \/ task[id].result[2] = ErrorText

\* C20: when the search for the joined pattern reports an error,
\* last_time_joined returns ("", "") and appends one node wrapping the
\* search error; when the joined search has succeeded and the search for
\* the left pattern reports an error, it returns the timestamp of the
\* joined line with "Error" and appends one wrapping node; and a command
\* one of whose lookups returned such a pair answers with the failure
\* message only.
C20_ErrorStates ==
    [][/\ \A id \in DOMAIN task :
             FailsNow(id) =>
                \E errors \in {batch[id[1]].errors}, after \in {batch'[id[1]].errors} :
                   /\ Len(after) = Len(errors) + 1
                   /\ SubSeq(after, 1, Len(errors)) = errors
                   /\ IF Len(task'[id].searches) = 1
                      THEN /\ task'[id].result = << <<>>, <<>> >>
                           /\ IsSearchWrap(after[Len(after)],
                                           "Error searching for joined pattern")
                      ELSE /\ task'[id].result =
                                 <<TimestampOf(task'[id].joined_lines[1]), ErrorText>>
                           /\ Contains(JoinedPattern(task'[id].username),
                                       task'[id].joined_lines[1])
                           /\ IsSearchWrap(after[Len(after)],
                                           "Error searching for left pattern")
       /\ \A b \in DOMAIN batch :
             (batch'[b].pc = "done" /\ HasErrorPair(b)') =>
                batch'[b].response = [kind |-> "failure", entries |-> <<>>]]_vars

\* C20 witness: one command has answered with the failure message after
\* its lookup returned the joined timestamp with "Error", and another
\* after its lookup returned ("", "").
C20_Witness ==
    \E id, other \in DOMAIN task :
       /\ id[1] \in DOMAIN batch /\ other[1] \in DOMAIN batch
       /\ task[id].pc = "done" /\ task[other].pc = "done"
       /\ task[id].result[2] = ErrorText
       /\ task[id].result[1] = TimestampOf(task[id].joined_lines[1])
       /\ task[other].result = << <<>>, <<>> >>
       /\ batch[id[1]].pc = "done" /\ batch[id[1]].response.kind = "failure"
       /\ batch[other[1]].pc = "done" /\ batch[other[1]].response.kind = "failure"

----------------------------------------------------------------------------
(* C21: get_player_stats attaches objects to identifiers by position *)

\* the JSON objects a whole file holds, in order
ObjectsOf(file) ==
    IF file = <<>> THEN <<>>
    ELSE IF file = StatsDouble THEN <<StatsNoCustom, StatsText(<<"2", "4", "1", "9">>)>>
    ELSE <<file>>

\* the objects `cat` prints for the files of uuids, in order
ObjectsFor(uuids) == Concat([k \in 1..Len(uuids) |-> ObjectsOf(statsFiles[uuids[k]])])

\* the get_player_stats call that has returned after exit status 0 over
\* whole files, if there is one
ZeroExitStats ==
    {o \in {cmd.ops[n] : n \in 1..Len(cmd.ops)} :
        /\ o.op = "get_player_stats"
        /\ o.exit = 0
        /\ \A k \in 1..Len(cmd.uuids) : statsFiles[cmd.uuids[k]] \in WholeFiles}

\* C21: when the remote command of get_player_stats exits with status 0
\* and its output holds m objects for n requested identifiers, the result
\* has exactly min(n, m) entries, the i-th of them maps the i-th
\* identifier to the stats of the i-th object, and no error is recorded,
\* also when m differs from n.
C21_AttachedByPosition ==
    \A o \in ZeroExitStats :
       \E objs \in {ObjectsFor(cmd.uuids)} :
          /\ Len(o.value) = (IF Len(cmd.uuids) < Len(objs) THEN Len(cmd.uuids) ELSE Len(objs))
          /\ \A i \in 1..Len(o.value) :
                o.value[i] = [uuid |-> cmd.uuids[i], stats |-> StatsLoads(objs[i])]
          /\ o.errors = <<>>

\* C21 witness: two identifiers were requested, the file of the first is
\* empty, and the first identifier got the play time of the second's file.
C21_Witness ==
    \E o \in ZeroExitStats :
       /\ Len(cmd.uuids) = 2
       /\ statsFiles[cmd.uuids[1]] = <<>>
       /\ statsFiles[cmd.uuids[2]] = StatsText(<<"7", "2", "0", "0", "0">>)
       /\ Len(o.value) = 1
       /\ o.value[1].uuid = cmd.uuids[1]
       /\ o.value[1].stats.play_time = 72000

----------------------------------------------------------------------------
(* C22: one remote call per path within a batch *)

\* the remote calls the lookups of command b have dispatched: <<id, n>>
\* stands for the n-th call of lookup id
Dispatches(b) ==
    UNION {{<<id, n>> : n \in 1..Len(task[id].remote)} :
              id \in {x \in DOMAIN task : x[1] = b}}

\* C22 as claimed: among the lookups one last_joined command gathers, with
\* no other command running, the remote listing and the remote read of any
\* one path are each dispatched at most once.
C22_DispatchedOnce ==
    \A b \in DOMAIN batch :
       \A d, e \in Dispatches(b) :
          task[d[1]].remote[d[2]] = task[e[1]].remote[e[2]] => d = e

----------------------------------------------------------------------------
(* C23: no lost update on the privileged-user list *)

\* the owner's completed commands of the given kind for username
CompletedFor(command, username) ==
    {id \in CtxIds :
        /\ ctxs[id].command = command
        /\ ctxs[id].author = Ada
        /\ ctxs[id].arg = username
        /\ ctxs[id].pc = "done"}

\* no invocation is under way
AllCompleted == \A id \in CtxIds : ctxs[id].pc \in {"none", "done"}

\* C23 as claimed: once every command has completed, a username is in the
\* persisted list if and only if the last completed command of the owner
\* for it was a grant; so a username for which the owner only granted is
\* listed, and one for which the owner only revoked is not.
C23_NoLostUpdate ==
    AllCompleted =>
       \A L \in {LinesOf(privilegedFile)} :
          \A username \in Usernames :
             \A granted \in {CompletedFor("grant_privileges", username)},
                revoked \in {CompletedFor("revoke_privileges", username)} :
                /\ (granted # {} /\ revoked = {}) => \E n \in 1..Len(L) : L[n] = username
                /\ (revoked # {} /\ granted = {}) => \A n \in 1..Len(L) : L[n] # username

----------------------------------------------------------------------------
(* C24: every lookup ends, after bounded work *)

\* the coroutines asyncio.gather runs for the command
LookupIds == TaskIds \ {DirectId}

\* the four terminal outcomes of a lookup, as sets of results
IsNoData(result) == result = <<NoData, NoData>>
IsError(result) == result = << <<>>, <<>> >> \/ result[2] = ErrorText
IsStillPlaying(result) == result[2] = StillPlaying
IsBoth(result) == result[1] \notin Sentinels /\ result[2] \notin Sentinels

\* result is exactly one of the four outcomes
OneOutcome(result) ==
    /\ Len(result) = 2
    /\ Cardinality({n \in 1..4 :
          \/ n = 1 /\ IsNoData(result)
          \/ n = 2 /\ IsError(result)
          \/ n = 3 /\ IsStillPlaying(result)
          \/ n = 4 /\ IsBoth(result)}) = 1

\* the keys search number s of frame t has asked for, found in the cache or
\* fetched: <<kind, n>> stands for the n-th hit or the n-th remote call
AccessesOf(t, s) ==
    LET last == s = Len(t.searches)
        hitsTo == IF last THEN Len(t.hits) ELSE t.searches[s + 1].hitsBefore
        remoteTo == IF last THEN Len(t.remote) ELSE t.searches[s + 1].remoteBefore
    IN {<<"hit", n>> : n \in (t.searches[s].hitsBefore + 1)..hitsTo}
          \cup {<<"remote", n>> : n \in (t.searches[s].remoteBefore + 1)..remoteTo}

KeyOf(t, a) == IF a[1] = "hit" THEN t.hits[a[2]] ELSE t.remote[a[2]]

\* what a lookup has done so far is within the bounds of the claim: at
\* most two searches, within a search every key asked for at most once,
\* and nothing dispatched after a remote call has failed
BoundedWork(t) ==
    /\ Len(t.searches) <= 2
    /\ \A s \in 1..Len(t.searches) :
          \A a, b \in AccessesOf(t, s) : KeyOf(t, a) = KeyOf(t, b) => a = b
    /\ t.failures <= 1
    /\ t.failures = 1 => t.pc = "done"

\* C24: provided every dispatched remote command eventually completes,
\* every last_time_joined lookup that was started eventually returns
\* exactly one of its four outcomes (no data, error, still playing, both
\* timestamps), and at every moment it has made at most two searches, each
\* of which has read every listed file at most once, with no remote call
\* dispatched again after a failure.
C24_LookupTerminates ==
    /\ \A id \in LookupIds :
          (task[id].caller = "last_time_joined" /\ task[id].pc = "init")
             ~> (task[id].pc = "done" /\ OneOutcome(task[id].result))
    /\ [](\A id \in LookupIds :
             task[id].caller = "last_time_joined" => BoundedWork(task[id]))

\* C24 witness: a lookup has returned both timestamps after two searches
\* over more than one file.
C24_Witness ==
    \E id \in LookupIds :
       /\ task[id].pc = "done"
       /\ IsBoth(task[id].result)
       /\ Len(task[id].searches) = 2
       /\ Len(listing) > 1
       /\ Len(task[id].remote) + Len(task[id].hits) > 3

====
